---- MODULE Spec2Model ----
(***************************************************************************)
(* A model of shotizam: the gosym pclntab decoder (header parser,          *)
(* function-table walker, pc-value table decoders) and the size            *)
(* attribution loop of main.                                               *)
(*                                                                         *)
(* Representation.                                                         *)
(*   - a []byte is a sequence of numbers 0..255; a sub-slice of Data is a  *)
(*     record [off, len] (0-based start inside Data, length); its capacity *)
(*     runs to the end of Data.                                            *)
(*   - a uint32 / uint64 / int64 that may not fit TLC's 32-bit integers   *)
(*     is a word: its little-endian base-256 digits (4 or 8 of them), with *)
(*     wrap-around arithmetic on the digits.                               *)
(*   - a Go panic is an explicit outcome (ok = FALSE), which the caller    *)
(*     recovers or propagates exactly where the source does.               *)
(***************************************************************************)
EXTENDS Integers, Sequences, FiniteSets, TLC

----------------------------------------------------------------------------
(* Words: fixed-width unsigned integers as little-endian byte digits.      *)

\* 2^30: every length and index of the model is far below it.
Huge == 1024 * 1024 * 1024

\* A sequence given by a function constructor, as the tuple of its values
\* (TLC keeps the constructor unevaluated and evaluates it anew at every
\* application).
Tuple(f) == f \o <<>>

\* e's value bound to the parameter of B: let v = e in B(v).
Bind(e, B(_)) == CHOOSE r \in {B(v) : v \in {e}} : TRUE

\* A loop: the state after its body has run until it set done, n times at
\* most. The runs are split in halves, which keeps the evaluation shallow.
RECURSIVE Iterate(_, _, _)
Iterate(Body(_), s, n) ==
    IF n <= 0 \/ s.done THEN s
    ELSE IF n = 1 THEN Body(s)
    ELSE Bind(Iterate(Body, s, n \div 2), LAMBDA m :
              Iterate(Body, m, n - n \div 2))

WZero(n) == Tuple([i \in 1..n |-> 0])

\* The n-digit word of a natural number x < 2^31.
WFromNat(x, n) ==
    Tuple([i \in 1..n |->
             CASE i = 1 -> x % 256
               [] i = 2 -> (x \div 256) % 256
               [] i = 3 -> (x \div 65536) % 256
               [] i = 4 -> (x \div 16777216) % 256
               [] OTHER -> 0])

\* The value of a word when it is below 2^30, and Huge otherwise
\* (used only where the source compares against a slice length).
WNat(w) ==
    IF \A i \in 1..Len(w) : (i > 4 => w[i] = 0) /\ (i = 4 => w[i] < 64)
    THEN (IF Len(w) >= 1 THEN w[1] ELSE 0)
         + (IF Len(w) >= 2 THEN w[2] * 256 ELSE 0)
         + (IF Len(w) >= 3 THEN w[3] * 65536 ELSE 0)
         + (IF Len(w) >= 4 THEN w[4] * 16777216 ELSE 0)
    ELSE Huge

\* a + b modulo 256^n (both of n digits).
WAdd(a, b) ==
    LET n == Len(a)
        c[i \in 0..n] == IF i = 0 THEN 0 ELSE (a[i] + b[i] + c[i-1]) \div 256
    IN Tuple([i \in 1..n |-> (a[i] + b[i] + c[i-1]) % 256])

\* a - b modulo 256^n: a + ~b + 1.
WSub(a, b) ==
    LET n == Len(a)
        nb == Tuple([i \in 1..n |-> 255 - b[i]])
        c[i \in 0..n] == IF i = 0 THEN 1 ELSE (a[i] + nb[i] + c[i-1]) \div 256
    IN Tuple([i \in 1..n |-> (a[i] + nb[i] + c[i-1]) % 256])

\* a * k modulo 256^n for a small k (k <= 2^20).
WMulSmall(a, k) ==
    LET n == Len(a)
        c[i \in 0..n] == IF i = 0 THEN 0 ELSE (a[i] * k + c[i-1]) \div 256
    IN Tuple([i \in 1..n |-> (a[i] * k + c[i-1]) % 256])

\* Unsigned a < b.
WLt(a, b) ==
    \E i \in 1..Len(a) :
        /\ a[i] < b[i]
        /\ \A j \in (i+1)..Len(a) : a[j] = b[j]

\* Zero extension (uint64(x) of a uint32) and truncation (uint32(x)).
WExtend(w, n) == Tuple([i \in 1..n |-> IF i <= Len(w) THEN w[i] ELSE 0])
WTrunc(w, n) == Tuple([i \in 1..n |-> w[i]])

\* int64(x) of a non-negative int.
I64(x) == WFromNat(x, 8)

----------------------------------------------------------------------------
(* Byte slices and fixed-width reads.                                      *)

NilSlice == [off |-> 0, len |-> 0]
Whole(data) == [off |-> 0, len |-> Len(data)]

\* s[a:] is legal when a <= len(s); s[:b] when b <= cap(s).
CanFrom(s, a) == a <= s.len
SliceFrom(s, a) == [off |-> s.off + a, len |-> s.len - a]
CanTo(data, s, b) == b <= Len(data) - s.off
SliceTo(s, b) == [off |-> s.off, len |-> b]

\* The bytes of slice s from position pos on, n of them (0-based pos).
Bytes(data, s, pos, n) == SubSeq(data, s.off + pos + 1, s.off + pos + n)
\* Reading n bytes of s at pos panics unless they are all inside s.
CanRead(s, pos, n) == pos + n <= s.len

Reverse(b) == Tuple([i \in 1..Len(b) |-> b[Len(b) + 1 - i]])

\* binary.ByteOrder.Uint32 / Uint64 of n bytes: the little-endian digits.
OrderWord(order, b) == IF order = "LE" THEN b ELSE Reverse(b)

\* LineTable.uintptr: a pointer-sized read, widened to uint64.
uintptr(order, ptrsize, data, s, pos) ==
    WExtend(OrderWord(order, Bytes(data, s, pos, ptrsize)), 8)

\* binary.Uint32 of the 4 bytes of s at pos.
Uint32(order, data, s, pos) == OrderWord(order, Bytes(data, s, pos, 4))

----------------------------------------------------------------------------
(* The header parser.                                                      *)

verUnknown == 0
ver11 == 1
ver12 == 2
ver116 == 3

\* The magic words 0xfffffffb and 0xfffffffa as uint32 words.
go12magic == <<251, 255, 255, 255>>
go116magic == <<250, 255, 255, 255>>

\* The LineTable NewTable constructs: nothing is parsed yet.
NewLineTable ==
    [version |-> verUnknown, binary |-> "none", quantum |-> 0, ptrsize |-> 0,
     nfunctab |-> WZero(4), nfiletab |-> WZero(4),
     funcnametab |-> NilSlice, cutab |-> NilSlice, funcdata |-> NilSlice,
     functab |-> NilSlice, filetab |-> NilSlice, pctab |-> NilSlice]

\* A header check that forgets the quantum byte.
HeaderOKAnyQuantum(data) ==
    ~ ( \/ Len(data) < 16
        \/ data[5] # 0
        \/ data[6] # 0
        \/ (data[8] # 4 /\ data[8] # 8) )

\* The header check of parsePclnTab: FALSE makes it return early.
HeaderOK(data) ==
    ~ ( \/ Len(data) < 16
        \/ data[5] # 0
        \/ data[6] # 0
        \/ (data[7] # 1 /\ data[7] # 2 /\ data[7] # 4)
        \/ (data[8] # 4 /\ data[8] # 8) )

\* A switch on the magic word that keeps the wrong byte order.
MagicCaseWrongOrder(data) ==
    LET leMagic == OrderWord("LE", SubSeq(data, 1, 4))
        beMagic == OrderWord("BE", SubSeq(data, 1, 4))
    IN CASE leMagic = go12magic -> [binary |-> "BE", possibleVersion |-> ver12]
         [] beMagic = go12magic -> [binary |-> "LE", possibleVersion |-> ver12]
         [] leMagic = go116magic -> [binary |-> "BE", possibleVersion |-> ver116]
         [] beMagic = go116magic -> [binary |-> "LE", possibleVersion |-> ver116]
         [] OTHER -> [binary |-> "none", possibleVersion |-> verUnknown]

\* A switch on the magic word that takes 0xfffffff0 for the ver116 layout.
MagicCaseAlsoF0(data) ==
    LET leMagic == OrderWord("LE", SubSeq(data, 1, 4))
        beMagic == OrderWord("BE", SubSeq(data, 1, 4))
    IN CASE leMagic = go12magic -> [binary |-> "LE", possibleVersion |-> ver12]
         [] beMagic = go12magic -> [binary |-> "BE", possibleVersion |-> ver12]
         [] leMagic \in {go116magic, <<240, 255, 255, 255>>} ->
               [binary |-> "LE", possibleVersion |-> ver116]
         [] beMagic \in {go116magic, <<240, 255, 255, 255>>} ->
               [binary |-> "BE", possibleVersion |-> ver116]
         [] OTHER -> [binary |-> "none", possibleVersion |-> verUnknown]

\* The switch on the magic word: the byte order and the possible version,
\* verUnknown for the default case.
MagicCase(data) ==
    LET leMagic == OrderWord("LE", SubSeq(data, 1, 4))
        beMagic == OrderWord("BE", SubSeq(data, 1, 4))
    IN CASE leMagic = go12magic -> [binary |-> "LE", possibleVersion |-> ver12]
         [] beMagic = go12magic -> [binary |-> "BE", possibleVersion |-> ver12]
         [] leMagic = go116magic -> [binary |-> "LE", possibleVersion |-> ver116]
         [] beMagic = go116magic -> [binary |-> "BE", possibleVersion |-> ver116]
         [] OTHER -> [binary |-> "none", possibleVersion |-> verUnknown]

\* functabsize := t.nfunctab*2*t.ptrsize + t.ptrsize, in uint32.
FunctabSize(nfunctab, ptrsize) ==
    WAdd(WMulSmall(nfunctab, 2 * ptrsize), WFromNat(ptrsize, 4))

\* The ver116 case. A panic (a read or a slice out of range) leaves the
\* fields assigned so far and the version at ver11.
\* t.Data[offset:] for the pointer-sized offset stored at 8+k*ptrsize.
OffsetAt(lt, data, k) ==
    LET pos == 8 + k * lt.ptrsize
    IN IF ~CanRead(Whole(data), pos, lt.ptrsize)
       THEN [ok |-> FALSE, s |-> NilSlice]
       ELSE Bind(WNat(uintptr(lt.binary, lt.ptrsize, data, Whole(data), pos)),
                 LAMBDA offset :
                 IF ~CanFrom(Whole(data), offset)
                 THEN [ok |-> FALSE, s |-> NilSlice]
                 ELSE [ok |-> TRUE, s |-> SliceFrom(Whole(data), offset)])

\* The end of the ver116 case: funcdata, functab, the functab bound, and
\* the version.
Parse116Functab(lt6, data, o6) ==
    Bind([lt6 EXCEPT !.funcdata = o6.s, !.functab = o6.s], LAMBDA lt7 :
    Bind(WNat(FunctabSize(lt7.nfunctab, lt7.ptrsize)), LAMBDA functabsize :
    IF ~CanTo(data, lt7.functab, functabsize) THEN lt7
    ELSE [lt7 EXCEPT !.functab = SliceTo(lt7.functab, functabsize),
                     !.version = ver116]))

Parse116(lt0, data) ==
    LET P == lt0.ptrsize
        D == Whole(data)
    IN Bind([lt0 EXCEPT !.nfunctab =
                WTrunc(uintptr(lt0.binary, P, data, D, 8), 4)], LAMBDA lt1 :
       IF ~CanRead(D, 8 + P, P) THEN lt1 ELSE
       Bind([lt1 EXCEPT !.nfiletab =
                WTrunc(uintptr(lt0.binary, P, data, D, 8 + P), 4)], LAMBDA lt2 :
       Bind(OffsetAt(lt2, data, 2), LAMBDA o2 : IF ~o2.ok THEN lt2 ELSE
       Bind([lt2 EXCEPT !.funcnametab = o2.s], LAMBDA lt3 :
       Bind(OffsetAt(lt3, data, 3), LAMBDA o3 : IF ~o3.ok THEN lt3 ELSE
       Bind([lt3 EXCEPT !.cutab = o3.s], LAMBDA lt4 :
       Bind(OffsetAt(lt4, data, 4), LAMBDA o4 : IF ~o4.ok THEN lt4 ELSE
       Bind([lt4 EXCEPT !.filetab = o4.s], LAMBDA lt5 :
       Bind(OffsetAt(lt5, data, 5), LAMBDA o5 : IF ~o5.ok THEN lt5 ELSE
       Bind([lt5 EXCEPT !.pctab = o5.s], LAMBDA lt6 :
       Bind(OffsetAt(lt6, data, 6), LAMBDA o6 : IF ~o6.ok THEN lt6 ELSE
       Parse116Functab(lt6, data, o6))))))))))))

\* The end of the ver12 case: the file table and the version.
Parse12Filetab(lt2, data, fileoff) ==
    IF ~CanFrom(Whole(data), fileoff) THEN lt2 ELSE
    Bind([lt2 EXCEPT !.filetab = SliceFrom(Whole(data), fileoff)], LAMBDA lt3 :
    IF ~CanRead(lt3.filetab, 0, 4) THEN lt3 ELSE
    Bind([lt3 EXCEPT !.nfiletab = Uint32(lt3.binary, data, lt3.filetab, 0)],
         LAMBDA lt4 :
    Bind(WNat(WMulSmall(lt4.nfiletab, 4)), LAMBDA n4 :
    IF ~CanTo(data, lt4.filetab, n4) THEN lt4
    ELSE [lt4 EXCEPT !.filetab = SliceTo(lt4.filetab, n4), !.version = ver12])))

\* The ver12 case.
Parse12(lt0, data) ==
    LET P == lt0.ptrsize
        D == Whole(data)
    IN Bind([lt0 EXCEPT
               !.nfunctab = WTrunc(uintptr(lt0.binary, P, data, D, 8), 4),
               !.funcdata = D, !.funcnametab = D,
               !.functab = SliceFrom(D, 8 + P), !.pctab = D], LAMBDA lt1 :
       Bind(WNat(FunctabSize(lt1.nfunctab, P)), LAMBDA functabsize :
       IF ~(CanFrom(lt1.functab, functabsize)
            /\ CanRead(lt1.functab, functabsize, 4)) THEN lt1 ELSE
       Bind(WNat(Uint32(lt1.binary, data, lt1.functab, functabsize)),
            LAMBDA fileoff :
       Parse12Filetab([lt1 EXCEPT !.functab = SliceTo(lt1.functab, functabsize)],
                      data, fileoff))))

\* parsePclnTab on a LineTable whose version is still verUnknown: the
\* version is ver11 on every path but the last assignment.
parsePclnTab(lt, data) ==
    IF lt.version # verUnknown THEN lt ELSE
    Bind([lt EXCEPT !.version = ver11], LAMBDA lt0 :
    IF ~HeaderOK(data) THEN lt0 ELSE
    Bind(MagicCase(data), LAMBDA m :
    IF m.possibleVersion = verUnknown THEN lt0 ELSE
    Bind([lt0 EXCEPT !.binary = m.binary,
                     !.quantum = data[7], !.ptrsize = data[8]], LAMBDA lt1 :
    IF m.possibleVersion = ver116 THEN Parse116(lt1, data)
    ELSE Parse12(lt1, data))))

\* isGo12: parse, then version >= ver12.
isGo12(lt) == lt.version >= ver12

----------------------------------------------------------------------------
(* Strings, the file map and the function-table walker.                    *)

\* bytes.IndexByte(arr[off:], 0): the distance from off to the first NUL of
\* arr at or after off, or -1.
IndexByte0(data, arr, off) ==
    Bind({i \in off..(arr.len - 1) : data[arr.off + i + 1] = 0}, LAMBDA nul :
    IF nul = {} THEN -1
    ELSE (CHOOSE i \in nul : \A j \in nul : i <= j) - off)

\* The slicing of funcName and stringFrom: arr[off:] panics when off is past
\* the end, and arr[off : off+uint32(i)] panics when no NUL follows (i = -1
\* makes the upper bound off-1 modulo 2^32).
CanString(data, arr, off) ==
    /\ CanFrom(arr, off)
    /\ IndexByte0(data, arr, off) # -1

StringAt(data, arr, off) == Bytes(data, arr, off, IndexByte0(data, arr, off))

\* stringFrom: the cache is keyed by the offset alone.
stringFrom(st, data, arr, off) ==
    IF off \in DOMAIN st.strings
    THEN [ok |-> TRUE, s |-> st.strings[off], st |-> st]
    ELSE IF ~CanString(data, arr, off)
    THEN [ok |-> FALSE, s |-> <<>>, st |-> st]
    ELSE Bind(StringAt(data, arr, off), LAMBDA str :
         [ok |-> TRUE, s |-> str,
          st |-> [st EXCEPT !.strings = (off :> str) @@ st.strings,
                            !.stringLen = st.stringLen + Len(str)]])

\* The lazy caches of a fresh LineTable.
NoCaches == [strings |-> <<>>, stringLen |-> 0, fileMap |-> <<>>, hasFileMap |-> FALSE]

\* initFileMap, ver12: for i = 1 .. nfiletab-1, the string at the offset
\* stored in filetab[4*i:].
FileStep12(lt, data, n, s) ==
    IF s.i >= n THEN [s EXCEPT !.done = TRUE]
    ELSE IF ~CanRead(lt.filetab, 4 * s.i, 4)
    THEN [s EXCEPT !.done = TRUE, !.ok = FALSE]
    ELSE Bind(stringFrom(s.st, data, lt.funcdata,
                         WNat(Uint32(lt.binary, data, lt.filetab, 4 * s.i))),
              LAMBDA r :
              IF ~r.ok THEN [s EXCEPT !.done = TRUE, !.ok = FALSE, !.st = r.st]
              ELSE [s EXCEPT !.i = @ + 1,
                             !.st = [r.st EXCEPT
                                       !.fileMap = (r.s :> s.i) @@ r.st.fileMap]])

\* The loop from i up to n: the body runs n - i times at most and the
\* loop condition once more.
FileLoop12(lt, data, i, n, st) ==
    Bind(Iterate(LAMBDA s : FileStep12(lt, data, n, s),
                 [done |-> FALSE, ok |-> TRUE, i |-> i, st |-> st],
                 (n - i) + 1),
         LAMBDA s : [ok |-> s.ok, st |-> s.st])

\* initFileMap, ver116: nfiletab consecutive strings of filetab.
FileStep116(lt, data, n, s) ==
    IF s.i >= n THEN [s EXCEPT !.done = TRUE]
    ELSE Bind(stringFrom(s.st, data, lt.filetab, s.pos), LAMBDA r :
              IF ~r.ok THEN [s EXCEPT !.done = TRUE, !.ok = FALSE, !.st = r.st]
              ELSE [s EXCEPT !.i = @ + 1,
                             !.pos = @ + Len(r.s) + 1,
                             !.st = [r.st EXCEPT
                                       !.fileMap = (r.s :> s.pos) @@ r.st.fileMap]])

FileLoop116(lt, data, i, n, pos, st) ==
    Bind(Iterate(LAMBDA s : FileStep116(lt, data, n, s),
                 [done |-> FALSE, ok |-> TRUE, i |-> i, pos |-> pos, st |-> st],
                 (n - i) + 1),
         LAMBDA s : [ok |-> s.ok, st |-> s.st])

\* initFileMap. A count of 2^30 or more cannot be walked to its end: the
\* file table is shorter than that many entries, so the loop panics.
initFileMap(lt, data, st) ==
    IF st.hasFileMap THEN [ok |-> TRUE, st |-> st]
    ELSE Bind(WNat(lt.nfiletab), LAMBDA n :
         Bind(IF n = Huge THEN [ok |-> FALSE, st |-> st]
              ELSE IF lt.version = ver12
              THEN FileLoop12(lt, data, 1, n, [st EXCEPT !.fileMap = <<>>])
              ELSE FileLoop116(lt, data, 0, n, 0, [st EXCEPT !.fileMap = <<>>]),
              LAMBDA r :
              IF r.ok THEN [ok |-> TRUE, st |-> [r.st EXCEPT !.hasFileMap = TRUE]]
              ELSE [ok |-> FALSE, st |-> [r.st EXCEPT !.fileMap = st.fileMap]]))

\* funcStruct.field(n): the n-th 4-byte field after the entry pointer.
CanField(lt, enc, n) == CanRead(enc, lt.ptrsize + n * 4, 4)
field(lt, data, enc, n) == Uint32(lt.binary, data, enc, lt.ptrsize + n * 4)

\* The field holding funcID and nfuncdata: 7 before ver116, 8 from it on.
FuncIDField(lt) == IF lt.version < ver116 THEN 7 ELSE 8

\* The Func of go12Funcs for the descriptor enc at offset fsOff.
FuncOf(lt, data, Entry, End, fsOff, enc, offName) ==
    [Entry |-> Entry, End |-> End,
     OffFixedFunc |-> fsOff,
     funcStructBytes |-> enc,
     ArgSize |-> WNat(field(lt, data, enc, 1)),
     NumPCData |-> WNat(field(lt, data, enc, 6)),
     NumFuncData |-> field(lt, data, enc, FuncIDField(lt))[1],
     OffPCSP |-> WNat(field(lt, data, enc, 3)),
     OffPCFile |-> WNat(field(lt, data, enc, 4)),
     OffPCLn |-> WNat(field(lt, data, enc, 5)),
     FuncID |-> field(lt, data, enc, FuncIDField(lt))[4],
     Name |-> StringAt(data, lt.funcnametab, offName)]

\* One iteration of the loop of go12Funcs: the Func of slot i (0-based), or
\* a panic. Offsets and counts of 2^30 or more are recorded as Huge: they
\* exceed every length of the model.
FuncAt(lt, data, i) ==
    LET P == lt.ptrsize
    IN IF ~(CanRead(lt.functab, 2 * i * P, P)
            /\ CanRead(lt.functab, (2 * i + 2) * P, P)
            /\ CanRead(lt.functab, (2 * i + 1) * P, P))
       THEN [ok |-> FALSE]
       ELSE
       Bind(WNat(uintptr(lt.binary, P, data, lt.functab, (2 * i + 1) * P)),
            LAMBDA fsOff :
       IF ~CanFrom(lt.funcdata, fsOff) THEN [ok |-> FALSE] ELSE
       Bind(SliceFrom(lt.funcdata, fsOff), LAMBDA enc :
       IF ~(\A n \in 0..FuncIDField(lt) : CanField(lt, enc, n))
       THEN [ok |-> FALSE] ELSE
       Bind(WNat(field(lt, data, enc, 0)), LAMBDA offName :
       IF ~CanString(data, lt.funcnametab, offName)
       THEN [ok |-> FALSE]
       ELSE [ok |-> TRUE,
             f |-> FuncOf(lt, data,
                          uintptr(lt.binary, P, data, lt.functab, 2 * i * P),
                          uintptr(lt.binary, P, data, lt.functab, (2 * i + 2) * P),
                          fsOff, enc, offName)])))

\* One turn of the loop of go12Funcs: the next Func is appended, or the
\* panic of a read ends the loop.
FuncsStep(lt, data, n, s) ==
    IF s.i >= n THEN [s EXCEPT !.done = TRUE]
    ELSE Bind(FuncAt(lt, data, s.i), LAMBDA r :
              IF ~r.ok THEN [s EXCEPT !.done = TRUE, !.ok = FALSE]
              ELSE [s EXCEPT !.i = @ + 1, !.funcs = Append(@, r.f)])

FuncsLoop(lt, data, i, n, acc) ==
    Iterate(LAMBDA s : FuncsStep(lt, data, n, s),
            [done |-> FALSE, ok |-> TRUE, i |-> i, funcs |-> acc],
            (n - i) + 1)

\* A walker that keeps the Funcs decoded before the panic.
FuncsFromPartial(lt, data, i, n, acc) ==
    Bind(FuncsLoop(lt, data, i, n, acc), LAMBDA s :
         [ok |-> s.ok, funcs |-> s.funcs])

\* The walk of go12Funcs from slot i: the recover leaves the named result
\* nil, whatever was appended before the panic.
FuncsFrom(lt, data, i, n, acc) ==
    Bind(FuncsLoop(lt, data, i, n, acc), LAMBDA s :
         [ok |-> s.ok, funcs |-> IF s.ok THEN s.funcs ELSE <<>>])

\* go12Funcs: len(functab)/ptrsize/2 Funcs, or, when any read panics, the
\* recovered nil slice. panicked records that the recover ran.
go12Funcs(lt, data) ==
    Bind(FuncsFrom(lt, data, 0, (lt.functab.len \div lt.ptrsize) \div 2, <<>>),
         LAMBDA r : [funcs |-> r.funcs, panicked |-> ~r.ok])

\* errors.New("not a go1.2+ line table")
NotGo12 == "not a go1.2+ line table"

\* NewTable: the error when the header is not a Go 1.2+ line table, "panic"
\* when initFileMap (which recovers nothing) panics, else the Table.
NewTable(data) ==
    Bind(parsePclnTab(NewLineTable, data), LAMBDA lt :
    IF ~isGo12(lt)
    THEN [res |-> "error", err |-> NotGo12, lt |-> lt, caches |-> NoCaches,
          Funcs |-> <<>>, walkPanicked |-> FALSE]
    ELSE Bind(initFileMap(lt, data, NoCaches), LAMBDA fm :
         IF ~fm.ok
         THEN [res |-> "panic", err |-> "", lt |-> lt, caches |-> fm.st,
               Funcs |-> <<>>, walkPanicked |-> FALSE]
         ELSE Bind(go12Funcs(lt, data), LAMBDA w :
              [res |-> "ok", err |-> "", lt |-> lt, caches |-> fm.st,
               Funcs |-> w.funcs, walkPanicked |-> w.panicked])))

----------------------------------------------------------------------------
(* The pc-value tables: encoding/binary varints and ForeachTableEntry.     *)

\* The number of bytes of the varint of s at pos: the bytes with the
\* continuation bit set, then one without. 0 when s ends first, -(i+1) when
\* the value overflows 64 bits, that is more than 10 bytes or a 10th byte
\* above 1 (binary.Uvarint's second result).
RECURSIVE UvarintLen(_, _, _, _)
UvarintLen(data, s, pos, i) ==
    IF pos + i >= s.len THEN 0
    ELSE IF i = 10 THEN 0 - (i + 1)
    ELSE LET b == data[s.off + pos + i + 1]
         IN IF b < 128
            THEN (IF i = 9 /\ b > 1 THEN 0 - (i + 1) ELSE i + 1)
            ELSE UvarintLen(data, s, pos, i + 1)

\* The value of the n-byte varint of s at pos, as a uint64 word: 7 bits per
\* byte, least significant group first.
RECURSIVE UvarintValue(_, _, _, _, _)
UvarintValue(data, s, pos, n, i) ==
    IF i >= n THEN WZero(8)
    ELSE WAdd(WMulSmall(UvarintValue(data, s, pos, n, i + 1), 128),
              WFromNat(data[s.off + pos + i + 1] % 128, 8))

\* binary.Uvarint: value (0 unless n > 0) and n.
Uvarint(data, s, pos) ==
    Bind(UvarintLen(data, s, pos, 0), LAMBDA n :
    [x |-> IF n > 0 THEN UvarintValue(data, s, pos, n, 0) ELSE WZero(8),
     n |-> n])

WShr1(w) ==
    Tuple([i \in 1..Len(w) |->
             (w[i] \div 2) + (IF i < Len(w) THEN (w[i+1] % 2) * 128 ELSE 0)])
WNot(w) == Tuple([i \in 1..Len(w) |-> 255 - w[i]])

\* binary.Varint: x = ux >> 1, complemented when the low bit of ux is set.
Varint(data, s, pos) ==
    Bind(Uvarint(data, s, pos), LAMBDA u :
    Bind(WShr1(u.x), LAMBDA x :
    [x |-> IF u.x[1] % 2 = 1 THEN WNot(x) ELSE x, n |-> u.n]))

\* A turn of the loop that does not look at End.
TableStepIgnoresEnd(lt, data, region, End, s) ==
    IF ~(region.len - s.pos > 0)
    THEN [s EXCEPT !.done = TRUE]
    ELSE Bind(Varint(data, region, s.pos), LAMBDA v :
         IF v.n <= 0 THEN [s EXCEPT !.done = TRUE, !.ok = FALSE] ELSE
         Bind(WAdd(s.val, v.x), LAMBDA val1 :
         Bind(Uvarint(data, region, s.pos + v.n), LAMBDA p :
         IF p.n <= 0 THEN [s EXCEPT !.done = TRUE, !.ok = FALSE] ELSE
         Bind(WAdd(s.pc, WMulSmall(p.x, lt.quantum)), LAMBDA pc1 :
         [s EXCEPT !.pos = @ + v.n + p.n, !.pc = pc1, !.val = val1,
                   !.steps = Append(@, [val |-> val1, valBytes |-> v.n,
                                        pc |-> pc1, pcBytes |-> p.n])]))))

\* The loop of ForeachTableEntry from position pos of the table region:
\* the steps handed to fn so far are in acc; the result holds them all, in
\* order, and whether the loop panicked ("bogus": a varint that is cut short
\* or overflows).
TableStep(lt, data, region, End, s) ==
    IF ~(region.len - s.pos > 0 /\ WLt(s.pc, End))
    THEN [s EXCEPT !.done = TRUE]
    ELSE Bind(Varint(data, region, s.pos), LAMBDA v :
         IF v.n <= 0 THEN [s EXCEPT !.done = TRUE, !.ok = FALSE] ELSE
         Bind(WAdd(s.val, v.x), LAMBDA val1 :
         Bind(Uvarint(data, region, s.pos + v.n), LAMBDA p :
         IF p.n <= 0 THEN [s EXCEPT !.done = TRUE, !.ok = FALSE] ELSE
         Bind(WAdd(s.pc, WMulSmall(p.x, lt.quantum)), LAMBDA pc1 :
         [s EXCEPT !.pos = @ + v.n + p.n, !.pc = pc1, !.val = val1,
                   !.steps = Append(@, [val |-> val1, valBytes |-> v.n,
                                        pc |-> pc1, pcBytes |-> p.n])]))))

\* Every turn takes two bytes of the region or more, so there are fewer
\* turns than bytes; done tells whether the loop has ended within as many
\* turns as the region has bytes, and one.
TableLoop(lt, data, region, End, pos, pc, val, acc) ==
    Bind(Iterate(LAMBDA s : TableStep(lt, data, region, End, s),
                 [done |-> FALSE, ok |-> TRUE, pos |-> pos, pc |-> pc,
                  val |-> val, steps |-> acc],
                 region.len + 1),
         LAMBDA s : [ok |-> s.ok, steps |-> s.steps, done |-> s.done])

\* int64(-1)
MinusOne64 == Tuple([i \in 1..8 |-> 255])

\* ForeachTableEntry over a table region: no step for offset 0, a panic
\* when the offset is past the region.
ForeachIn(lt, data, region, f, off) ==
    IF off = 0 THEN [ok |-> TRUE, steps |-> <<>>, done |-> TRUE]
    ELSE IF ~CanFrom(region, off) THEN [ok |-> FALSE, steps |-> <<>>, done |-> TRUE]
    ELSE TableLoop(lt, data, SliceFrom(region, off), f.End, 0, f.Entry,
                   MinusOne64, <<>>)

\* symtab.go reads the table in funcdata, extra.go in pctab.
ForeachTableEntry(lt, data, f, off) == ForeachIn(lt, data, lt.funcdata, f, off)
ForeachTableEntryPctab(lt, data, f, off) == ForeachIn(lt, data, lt.pctab, f, off)

RECURSIVE SumBytes(_)
SumBytes(steps) ==
    IF steps = <<>> THEN 0
    ELSE IF Len(steps) = 1 THEN steps[1].valBytes + steps[1].pcBytes
    ELSE SumBytes(SubSeq(steps, 1, Len(steps) \div 2))
         + SumBytes(SubSeq(steps, Len(steps) \div 2 + 1, Len(steps)))

\* The callback of tableSize run over the steps: sumSize, and the number of
\* times it ran.
SizeOf(r) == [ok |-> r.ok, size |-> SumBytes(r.steps), calls |-> Len(r.steps)]

\* tableSize: the bytes of every step.
tableSize(lt, data, f, off) ==
    Bind(ForeachTableEntry(lt, data, f, off), LAMBDA r : SizeOf(r))

tableSizePctab(lt, data, f, off) ==
    Bind(ForeachTableEntryPctab(lt, data, f, off), LAMBDA r : SizeOf(r))

TableSizePCSP(lt, data, f) == tableSize(lt, data, f, f.OffPCSP)
TableSizePCFile(lt, data, f) == tableSize(lt, data, f, f.OffPCFile)
TableSizePCLn(lt, data, f) == tableSize(lt, data, f, f.OffPCLn)

\* TableSizePCData(tab) for 0 <= tab < NumPCData: the offset is field 8+tab
\* (9+tab from ver116 on) of the descriptor; 0 means no table.
PCDataField(lt, tab) == IF lt.version >= ver116 THEN 9 + tab ELSE 8 + tab

TableSizePCData(lt, data, f, tab) ==
    IF ~CanField(lt, f.funcStructBytes, PCDataField(lt, tab))
    THEN [ok |-> FALSE, size |-> 0, calls |-> 0]
    ELSE Bind(WNat(field(lt, data, f.funcStructBytes, PCDataField(lt, tab))),
              LAMBDA tableOff :
              IF tableOff = 0 THEN [ok |-> TRUE, size |-> 0, calls |-> 0]
              ELSE tableSize(lt, data, f, tableOff))

----------------------------------------------------------------------------
(* The pc-value tables: readvarint, step and pcvalue of the line table.    *)

\* readvarint: the number of bytes up to and including the first one
\* without the continuation bit; -1 when p runs out first (p[0] panics).
RECURSIVE VarintLen32(_, _, _, _)
VarintLen32(data, s, pos, i) ==
    IF pos + i >= s.len THEN -1
    ELSE IF data[s.off + pos + i + 1] < 128 THEN i + 1
    ELSE VarintLen32(data, s, pos, i + 1)

\* The uint32 v |= (b & 0x7F) << shift of an n-byte varint: lo holds bits
\* 0..27 (the first four groups), hi bits 28..31 (the low four bits of the
\* fifth group); later groups are shifted out of the 32 bits.
Group(data, s, pos, i, n) ==
    IF i < n THEN data[s.off + pos + i + 1] % 128 ELSE 0

readvarint(data, s, pos) ==
    Bind(VarintLen32(data, s, pos, 0), LAMBDA n :
    IF n < 0 THEN [ok |-> FALSE, n |-> 0, lo |-> 0, hi |-> 0]
    ELSE [ok |-> TRUE, n |-> n,
          lo |-> Group(data, s, pos, 0, n)
                 + Group(data, s, pos, 1, n) * 128
                 + Group(data, s, pos, 2, n) * 16384
                 + Group(data, s, pos, 3, n) * 2097152,
          hi |-> Group(data, s, pos, 4, n) % 16])

\* The uint32 word of a readvarint result.
VarintWord(v) ==
    <<v.lo % 256, (v.lo \div 256) % 256, (v.lo \div 65536) % 256,
      (v.lo \div 16777216) + v.hi * 16>>

\* a + b in int32, wrapping.
AddInt32(a, b) ==
    IF a >= 0 /\ b >= 0
    THEN (IF ((a - Huge) - Huge) + b >= 0
          THEN ((((a - Huge) - Huge) + b) - Huge) - Huge ELSE a + b)
    ELSE IF a < 0 /\ b < 0
    THEN (IF ((a + Huge) + Huge) + b < 0
          THEN ((((a + Huge) + Huge) + b) + Huge) + Huge ELSE a + b)
    ELSE a + b

\* int32(uvdelta) after the zig-zag decoding of step.
Vdelta(uv) ==
    IF uv.lo % 2 # 0
    THEN (0 - ((uv.lo \div 2) + uv.hi * 134217728)) - 1
    ELSE (uv.lo \div 2) + uv.hi * 134217728

\* step: more = FALSE at the terminator, ok = FALSE when a varint runs off
\* the table. pos is the position in the region after the step.
step(lt, data, region, pos, pc, val, first) ==
    Bind(readvarint(data, region, pos), LAMBDA uv :
    IF ~uv.ok THEN [ok |-> FALSE, more |-> FALSE, pos |-> pos, pc |-> pc, val |-> val]
    ELSE IF uv.lo = 0 /\ uv.hi = 0 /\ ~first
    THEN [ok |-> TRUE, more |-> FALSE, pos |-> pos + uv.n, pc |-> pc, val |-> val]
    ELSE
    Bind(readvarint(data, region, pos + uv.n), LAMBDA pd :
    IF ~pd.ok
    THEN [ok |-> FALSE, more |-> FALSE, pos |-> pos + uv.n, pc |-> pc, val |-> val]
    ELSE [ok |-> TRUE, more |-> TRUE, pos |-> pos + uv.n + pd.n,
          pc |-> WAdd(pc, WExtend(WMulSmall(VarintWord(pd), lt.quantum), 8)),
          val |-> AddInt32(val, Vdelta(uv))]))

\* The loop of pcvalue.
\* A loop that returns at a step whose pc equals the target as well.
PcvalueStepNonStrict(lt, data, region, entry, targetpc, s) ==
    Bind(step(lt, data, region, s.pos, s.pc, s.val, s.pc = entry), LAMBDA r :
    IF ~r.ok THEN [s EXCEPT !.done = TRUE, !.ok = FALSE, !.res = 0]
    ELSE IF ~r.more THEN [s EXCEPT !.done = TRUE, !.res = -1]
    ELSE IF ~WLt(r.pc, targetpc)
    THEN [s EXCEPT !.done = TRUE, !.res = r.val,
                   !.steps = Append(@, [pos |-> s.pos, pc |-> r.pc, val |-> r.val])]
    ELSE [s EXCEPT !.pos = r.pos, !.pc = r.pc, !.val = r.val,
                   !.steps = Append(@, [pos |-> s.pos, pc |-> r.pc, val |-> r.val])])

PcvalueStep(lt, data, region, entry, targetpc, s) ==
    Bind(step(lt, data, region, s.pos, s.pc, s.val, s.pc = entry), LAMBDA r :
    IF ~r.ok THEN [s EXCEPT !.done = TRUE, !.ok = FALSE, !.res = 0]
    ELSE IF ~r.more THEN [s EXCEPT !.done = TRUE, !.res = -1]
    ELSE IF WLt(targetpc, r.pc)
    THEN [s EXCEPT !.done = TRUE, !.res = r.val,
                   !.steps = Append(@, [pos |-> s.pos, pc |-> r.pc, val |-> r.val])]
    ELSE [s EXCEPT !.pos = r.pos, !.pc = r.pc, !.val = r.val,
                   !.steps = Append(@, [pos |-> s.pos, pc |-> r.pc, val |-> r.val])])

\* Every step takes a byte of the region or more, so the loop is over
\* after as many steps as the region has bytes, and one. steps holds, for
\* every call of step that returned true, the position it read from and the
\* pc and val it left.
PcvalueLoop(lt, data, region, pos, pc, val, entry, targetpc) ==
    Bind(Iterate(LAMBDA s : PcvalueStep(lt, data, region, entry, targetpc, s),
                 [done |-> FALSE, ok |-> TRUE, res |-> 0, pos |-> pos,
                  pc |-> pc, val |-> val, steps |-> <<>>],
                 region.len + 1),
         LAMBDA s : [ok |-> s.ok, val |-> s.res, steps |-> s.steps])

\* pcvalue(off, entry, targetpc): the value, or a panic (ok = FALSE).
pcvalue(lt, data, off, entry, targetpc) ==
    IF ~CanFrom(lt.pctab, off) THEN [ok |-> FALSE, val |-> 0, steps |-> <<>>]
    ELSE PcvalueLoop(lt, data, SliceFrom(lt.pctab, off), 0, entry, -1,
                     entry, targetpc)

----------------------------------------------------------------------------
(* Symbol names.                                                           *)

HasPrefix(name, pre) ==
    Len(name) >= Len(pre) /\ SubSeq(name, 1, Len(pre)) = pre

\* strings.LastIndex(name, "/") and strings.Index(name[from:], "."), 0-based,
\* -1 when absent ('/' is 47, '.' is 46).
LastIndexSlash(name) ==
    LET at == {i \in 1..Len(name) : name[i] = 47}
    IN IF at = {} THEN -1
       ELSE (CHOOSE i \in at : \A j \in at : j <= i) - 1

IndexDotFrom(name, from) ==
    LET at == {i \in (from + 1)..Len(name) : name[i] = 46}
    IN IF at = {} THEN -1
       ELSE (CHOOSE i \in at : \A j \in at : i <= j) - 1 - from

\* A derivation that looks for the '.' from the start of the name.
PackageNameFirstDot(name) ==
    IF HasPrefix(name, <<103, 111, 46>>) \/ HasPrefix(name, <<116, 121, 112, 101, 46>>)
    THEN <<>>
    ELSE LET i == IndexDotFrom(name, 0)
         IN IF i # -1 THEN SubSeq(name, 1, i) ELSE <<>>

\* A derivation that takes a name without a '.' for a package.
PackageNameOrWhole(name) ==
    IF HasPrefix(name, <<103, 111, 46>>) \/ HasPrefix(name, <<116, 121, 112, 101, 46>>)
    THEN <<>>
    ELSE LET last == LastIndexSlash(name)
             pathend == IF last < 0 THEN 0 ELSE last
             i == IndexDotFrom(name, pathend)
         IN IF i # -1 THEN SubSeq(name, 1, pathend + i) ELSE name

\* Sym.PackageName ("go." is 103 111 46, "type." is 116 121 112 101 46).
PackageName(name) ==
    IF HasPrefix(name, <<103, 111, 46>>) \/ HasPrefix(name, <<116, 121, 112, 101, 46>>)
    THEN <<>>
    ELSE LET last == LastIndexSlash(name)
             pathend == IF last < 0 THEN 0 ELSE last
             i == IndexDotFrom(name, pathend)
         IN IF i # -1 THEN SubSeq(name, 1, pathend + i) ELSE <<>>

----------------------------------------------------------------------------
(* Input buffers: pclntab images as the linker lays them out, and damaged  *)
(* copies of them.                                                         *)

\* The n bytes of x (x < 2^31) in the byte order.
Enc(order, x, n) == OrderWord(order, WFromNat(x, n))

RECURSIVE Flatten(_)
Flatten(ss) == IF ss = <<>> THEN <<>> ELSE Head(ss) \o Flatten(Tail(ss))

\* The total length of the first k sequences of ss.
RECURSIVE LenBefore(_, _)
LenBefore(ss, k) == IF k = 0 THEN 0 ELSE LenBefore(ss, k - 1) + Len(ss[k])

Magic(order, ver) ==
    OrderWord(order, IF ver = ver12 THEN go12magic ELSE go116magic)

Header(order, ver, Q, P) == Magic(order, ver) \o <<0, 0, Q, P>>

\* What the builder is told about function i: its name, the length of its
\* text, nfuncdata, and its tables pcsp, pcfile, pcln, pcdata0.. (<<>> for
\* "no table", offset 0).
DescLen(ver, P, fn) ==
    P + (IF ver = ver12 THEN 8 ELSE 9) * 4 + 4 * (Len(fn.tabs) - 3)
      + P * fn.nfuncdata

NamesOf(funcs) == Tuple([i \in 1..Len(funcs) |-> funcs[i].name \o <<0>>])
AllTabs(funcs) == Flatten([i \in 1..Len(funcs) |-> funcs[i].tabs])
\* The index in AllTabs of table j (1-based) of function i.
TabIndex(funcs, i, j) ==
    LenBefore([k \in 1..Len(funcs) |-> funcs[k].tabs], i - 1) + j

\* Function i starts where function i-1 ends; the text starts at 4096.
EntryOf(funcs, i) ==
    4096 + LenBefore([k \in 1..Len(funcs) |-> [t \in 1..funcs[k].text |-> 0]], i - 1)

\* A descriptor: entry, name, args, deferreturn, pcsp, pcfile, pcln,
\* npcdata, (cuoffset from ver116 on,) funcID/nfuncdata, pcdata offsets,
\* funcdata pointers.
Desc(order, ver, P, funcs, i, nameBase, tabBase) ==
    LET fn == funcs[i]
        tabOff(j) ==
            IF fn.tabs[j] = <<>> THEN 0
            ELSE tabBase + LenBefore(AllTabs(funcs), TabIndex(funcs, i, j) - 1)
    IN Enc(order, EntryOf(funcs, i), P)
       \o Enc(order, nameBase + LenBefore(NamesOf(funcs), i - 1), 4)
       \o Enc(order, 8, 4) \o Enc(order, 0, 4)
       \o Enc(order, tabOff(1), 4) \o Enc(order, tabOff(2), 4)
       \o Enc(order, tabOff(3), 4)
       \o Enc(order, Len(fn.tabs) - 3, 4)
       \o (IF ver = ver12 THEN <<>> ELSE Enc(order, 0, 4))
       \o OrderWord(order, <<fn.nfuncdata, 0, 0, fn.funcID>>)
       \o Flatten([j \in 1..(Len(fn.tabs) - 3) |-> Enc(order, tabOff(3 + j), 4)])
       \o [k \in 1..(P * fn.nfuncdata) |-> 0]

DescsLenBefore(ver, P, funcs, i) ==
    LenBefore([k \in 1..Len(funcs) |-> [t \in 1..DescLen(ver, P, funcs[k]) |-> 0]], i - 1)

\* The function table: entry and descriptor offset per function, then the
\* end of the last function.
Functab(order, P, funcs, descBase, ver) ==
    Flatten([i \in 1..Len(funcs) |->
                Enc(order, EntryOf(funcs, i), P)
                \o Enc(order, descBase + DescsLenBefore(ver, P, funcs, i), P)])
    \o Enc(order, EntryOf(funcs, Len(funcs) + 1), P)

\* A ver12 image: header, nfunctab, functab, fileoff, file table (one file),
\* the file name, descriptors, names, tables.
FileName == <<102, 46, 103, 111>>
Build12(order, Q, P, funcs) ==
    LET n == Len(funcs)
        functabOff == 8 + P
        fileoff == functabOff + (2 * n + 1) * P + 4
        strOff == fileoff + 8
        descBase == strOff + Len(FileName) + 1
        nameBase == descBase + DescsLenBefore(ver12, P, funcs, n + 1)
        tabBase == nameBase + LenBefore(NamesOf(funcs), n)
    IN Header(order, ver12, Q, P) \o Enc(order, n, P)
       \o Functab(order, P, funcs, descBase, ver12)
       \o Enc(order, fileoff, 4)
       \o Enc(order, 2, 4) \o Enc(order, strOff, 4)
       \o FileName \o <<0>>
       \o Flatten([i \in 1..n |-> Desc(order, ver12, P, funcs, i, nameBase, tabBase)])
       \o Flatten(NamesOf(funcs))
       \o Flatten(AllTabs(funcs))

\* A ver116 image: header, nfunctab, nfiletab, the five offsets, then the
\* regions funcnametab, cutab, filetab, pctab and funcdata (the function
\* table, then the descriptors). Offsets are relative to their region; a
\* leading 0 byte keeps offset 0 of funcnametab and pctab unused.
Build116(order, Q, P, funcs) ==
    LET n == Len(funcs)
        nameOff == 8 + 7 * P
        nametab == <<0>> \o Flatten(NamesOf(funcs))
        cuOff == nameOff + Len(nametab)
        cutab == Enc(order, 0, 4)
        fileOff == cuOff + 4
        files == FileName \o <<0>>
        pcOff == fileOff + Len(files)
        pctab == <<0>> \o Flatten(AllTabs(funcs))
        fdOff == pcOff + Len(pctab)
    IN Header(order, ver116, Q, P) \o Enc(order, n, P) \o Enc(order, 1, P)
       \o Enc(order, nameOff, P) \o Enc(order, cuOff, P)
       \o Enc(order, fileOff, P) \o Enc(order, pcOff, P) \o Enc(order, fdOff, P)
       \o nametab \o cutab \o files \o pctab
       \o Functab(order, P, funcs, (2 * n + 1) * P, ver116)
       \o Flatten([i \in 1..n |-> Desc(order, ver116, P, funcs, i, 1, 1)])

Build(order, ver, Q, P, funcs) ==
    IF ver = ver12 THEN Build12(order, Q, P, funcs) ELSE Build116(order, Q, P, funcs)

----------------------------------------------------------------------------
(* The inputs of the model.                                                *)

\* The most functions an image holds, and the most bytes cut off its end.
MaxFuncs == 2
MaxCut == 3

\* Function k of an image (k = 1, 2, ...), three shapes in turn. The pc
\* deltas of each table add up to the text length over the quantum Q.
\* Names: "a.b", "go.x", "p/q.r".
FuncShape(k, Q) ==
    CASE k % 3 = 1 ->
           [name |-> <<97, 46, 98>>, text |-> 6 * Q, nfuncdata |-> 1, funcID |-> 0,
            tabs |-> << <<2, 2, 4, 4, 0>>, <<2, 6, 0>>, <<4, 3, 3, 3, 0>>,
                        <<>>, <<1, 6, 0>> >>]
      [] k % 3 = 2 ->
           [name |-> <<103, 111, 46, 120>>, text |-> 4 * Q, nfuncdata |-> 0, funcID |-> 3,
            tabs |-> << <<2, 4, 0>>, <<>>, <<4, 1, 2, 3, 0>> >>]
      [] OTHER ->
           [name |-> <<112, 47, 113, 46, 114>>, text |-> 2 * Q, nfuncdata |-> 2, funcID |-> 0,
            tabs |-> << <<2, 2, 0>>, <<0, 2, 0>>, <<130, 1, 2, 0>>, <<2, 2, 0>> >>]

FuncShapes(n, Q) == Tuple([k \in 1..n |-> FuncShape(k, Q)])

Orders == {"LE", "BE"}
Versions == {ver12, ver116}
Quanta == {1, 2, 4}
PtrSizes == {4, 8}

\* Every well-formed image of the model.
Images(n) ==
    {Build(o, v, Q, P, FuncShapes(n, Q)) :
        o \in Orders, v \in Versions, Q \in Quanta, P \in PtrSizes}

\* Damage: one byte overwritten, or the image cut short.
SetByte(data, pos, b) == [data EXCEPT ![pos + 1] = b]
CutTo(data, n) == SubSeq(data, 1, n)

\* The byte values written over a byte: 0, small, the continuation bit, 0xFF;
\* and 0xF0 over either end of the magic (the low byte of 0xfffffff0).
DamageBytes == {0, 3, 128, 255}

Damaged(data) ==
    {SetByte(data, pos, b) : pos \in 0..(Len(data) - 1), b \in DamageBytes}
    \cup {SetByte(data, pos, 240) : pos \in {0, 3}}
    \cup {CutTo(data, n) : n \in {0, 8, 15, 16}}
    \cup {CutTo(data, Len(data) - c) : c \in 1..MaxCut}

\* The images that are damaged: both versions, both byte orders.
DamageBases(n) ==
    {Build("LE", ver12, 1, 4, FuncShapes(n, 1)),
     Build("BE", ver12, 2, 8, FuncShapes(n, 2)),
     Build("LE", ver116, 1, 4, FuncShapes(n, 1))}

Modes == {"sql", "tsv", "json", "nameinfo", "xml"}

----------------------------------------------------------------------------
(* main: NewTable, the attribution loop, the residual.                     *)

VARIABLES
    Data,             \* f.Gopclntab
    binSize,          \* fi.Size()
    mode,             \* *mode
    pc,               \* where main is: start, loop, done, fatal, panic
    t,                \* the result of gosym.NewTable
    i,                \* the index into t.Funcs (1-based)
    stage,            \* the emit call the loop body is at
    tab,              \* the pcdata table of the pcdata loop
    unaccountedSize,  \* int64
    out,              \* what was written to w
    recs,             \* the json records
    names,
    emitted,          \* history: the int64 sum of all sizes passed to emit
    lastEmit,         \* history: the last call of emit
    q                 \* the last query made of the Table and its result

vars == <<Data, binSize, mode, pc, t, i, stage, tab, unaccountedSize, out,
          recs, names, emitted, lastEmit, q>>

NoTable == [res |-> "none", err |-> "", lt |-> NewLineTable, caches |-> NoCaches,
            Funcs |-> <<>>, walkPanicked |-> FALSE]
NoEmit == [called |-> FALSE, what |-> <<>>, size |-> WZero(8), wrote |-> FALSE,
           before |-> WZero(8), after |-> WZero(8)]

NoQuery == [op |-> "none"]

InitWith(data, m) ==
    /\ Data = data
    /\ binSize = Len(data) + 65536
    /\ mode = m
    /\ pc = "start"
    /\ t = NoTable
    /\ i = 0 /\ stage = "fixedheader" /\ tab = 0
    /\ unaccountedSize = WZero(8)
    /\ out = <<>> /\ recs = <<>> /\ names = <<>>
    /\ emitted = WZero(8)
    /\ lastEmit = NoEmit
    /\ q = NoQuery

\* Well-formed images of 0..MaxFuncs functions in every mode, and damaged
\* images of MaxFuncs functions.
Init ==
    \/ \E n \in 0..MaxFuncs : \E data \in Images(n) : \E m \in Modes :
          InitWith(data, m)
    \/ \E img \in DamageBases(MaxFuncs) : \E data \in Damaged(img) :
          InitWith(data, "sql")

\* The statements and rows written to w.
Stmt(text) == [kind |-> "stmt", text |-> text]
Row(name, pkg, what, size) ==
    [kind |-> "row", name |-> name, pkg |-> pkg, what |-> what, size |-> size]

\* main from gosym.NewTable to the start of the loop.
Start ==
    /\ pc = "start"
    /\ \E r \in {NewTable(Data)} :
          /\ t' = r
          /\ IF r.res = "error" THEN pc' = "fatal" /\ out' = out
             ELSE IF r.res = "panic" THEN pc' = "panic" /\ out' = out
             ELSE IF mode \notin {"sql", "json", "tsv", "nameinfo"}
             THEN pc' = "fatal" /\ out' = out
             ELSE /\ pc' = "loop"
                  /\ out' = IF mode = "sql"
                            THEN <<Stmt("DROP TABLE"), Stmt("CREATE TABLE"),
                                   Stmt("BEGIN TRANSACTION")>>
                            ELSE out
    /\ i' = 1 /\ stage' = "fixedheader" /\ tab' = 0
    /\ unaccountedSize' = I64(binSize)
    /\ UNCHANGED <<Data, binSize, mode, recs, names, emitted, lastEmit, q>>

pcdataSuffix(n) ==
    CASE n = 0 -> "-regmap"
      [] n = 1 -> "-stackmap"
      [] n = 2 -> "-inltree"
      [] OTHER -> ""

\* The argument pair of the emit call at (stage, tab) for function f: a
\* panic when the size query panics.
EmitArgs(lt, data, f, st, tb) ==
    CASE st = "fixedheader" ->
           [ok |-> TRUE, what |-> <<"fixedheader">>, size |-> I64(lt.ptrsize + 8 * 4)]
      [] st = "funcdata" ->
           [ok |-> TRUE, what |-> <<"funcdata">>, size |-> I64(lt.ptrsize * f.NumFuncData)]
      [] st = "pcsp" ->
           Bind(TableSizePCSP(lt, data, f), LAMBDA r :
                [ok |-> r.ok, what |-> <<"pcsp">>, size |-> I64(r.size)])
      [] st = "pcfile" ->
           Bind(TableSizePCFile(lt, data, f), LAMBDA r :
                [ok |-> r.ok, what |-> <<"pcfile">>, size |-> I64(r.size)])
      [] st = "pcln" ->
           Bind(TableSizePCLn(lt, data, f), LAMBDA r :
                [ok |-> r.ok, what |-> <<"pcln">>, size |-> I64(r.size)])
      [] st = "pcdata" ->
           Bind(TableSizePCData(lt, data, f, tb), LAMBDA r :
                [ok |-> r.ok, what |-> <<"pcdata", tb, pcdataSuffix(tb)>>,
                 size |-> I64(4 + r.size)])
      [] st = "text" ->
           [ok |-> TRUE, what |-> <<"text">>, size |-> WSub(f.End, f.Entry)]
      [] OTHER ->
           [ok |-> TRUE, what |-> <<"funcname">>, size |-> I64(Len(f.Name) + 1)]

\* A loop over the pcdata tables that starts at table 1.
NextEmitFromSecondTable(f, st, tb) ==
    CASE st = "fixedheader" -> <<"funcdata", 0, FALSE>>
      [] st = "funcdata" -> <<"pcsp", 0, FALSE>>
      [] st = "pcsp" -> <<"pcfile", 0, FALSE>>
      [] st = "pcfile" -> <<"pcln", 0, FALSE>>
      [] st = "pcln" -> IF 1 < f.NumPCData THEN <<"pcdata", 1, FALSE>>
                        ELSE <<"text", 0, FALSE>>
      [] st = "pcdata" -> IF tb + 1 < f.NumPCData THEN <<"pcdata", tb + 1, FALSE>>
                          ELSE <<"text", 0, FALSE>>
      [] st = "text" -> <<"funcname", 0, FALSE>>
      [] OTHER -> <<"fixedheader", 0, TRUE>>

\* The emit call after the one at (stage, tab): <<stage, tab, next function>>.
NextEmit(f, st, tb) ==
    CASE st = "fixedheader" -> <<"funcdata", 0, FALSE>>
      [] st = "funcdata" -> <<"pcsp", 0, FALSE>>
      [] st = "pcsp" -> <<"pcfile", 0, FALSE>>
      [] st = "pcfile" -> <<"pcln", 0, FALSE>>
      [] st = "pcln" -> IF 0 < f.NumPCData THEN <<"pcdata", 0, FALSE>>
                        ELSE <<"text", 0, FALSE>>
      [] st = "pcdata" -> IF tb + 1 < f.NumPCData THEN <<"pcdata", tb + 1, FALSE>>
                          ELSE <<"text", 0, FALSE>>
      [] st = "text" -> <<"funcname", 0, FALSE>>
      [] OTHER -> <<"fixedheader", 0, TRUE>>

\* unaccountedSize += int64(size)
UnaccountAdds(unaccounted, size) == WAdd(unaccounted, size)

\* unaccountedSize -= int64(size)
Unaccount(unaccounted, size) == WSub(unaccounted, size)

\* An emit without the test for size 0.
WritesZeroToo(m, size) == m \in {"sql", "tsv", "json"}

\* Whether emit writes a row for this size in this mode.
Writes(m, size) == size # WZero(8) /\ m \in {"sql", "tsv", "json"}

\* One emit call of the loop body (with the size query in its argument).
Emit ==
    /\ pc = "loop"
    /\ i <= Len(t.Funcs)
    /\ \E f \in {t.Funcs[i]} : \E a \in {EmitArgs(t.lt, Data, f, stage, tab)} :
       \E nx \in {NextEmit(f, stage, tab)} :
       \E row \in {Row(f.Name, PackageName(f.Name), a.what, a.size)} :
          /\ names' = IF stage = "fixedheader" THEN Append(names, f.Name) ELSE names
          /\ IF ~a.ok
             THEN /\ pc' = "panic"
                  /\ UNCHANGED <<i, stage, tab, unaccountedSize, out, recs,
                                 emitted, lastEmit>>
             ELSE /\ pc' = pc
                  /\ unaccountedSize' = Unaccount(unaccountedSize, a.size)
                  /\ emitted' = WAdd(emitted, a.size)
                  /\ out' = IF Writes(mode, a.size) /\ mode \in {"sql", "tsv"}
                            THEN Append(out, row) ELSE out
                  /\ recs' = IF Writes(mode, a.size) /\ mode = "json"
                             THEN Append(recs, row) ELSE recs
                  /\ lastEmit' = [called |-> TRUE, what |-> a.what, size |-> a.size,
                                  wrote |-> (Len(out') + Len(recs')
                                               = Len(out) + Len(recs) + 1),
                                  before |-> unaccountedSize,
                                  after |-> unaccountedSize']
                  /\ stage' = nx[1]
                  /\ tab' = nx[2]
                  /\ i' = IF nx[3] THEN i + 1 ELSE i
    /\ UNCHANGED <<Data, binSize, mode, t, q>>

\* The residual row: INSERT INTO Bin (What, Size) VALUES ('TODO', ...).
Residual(size) == Row(<<>>, <<>>, <<"TODO">>, size)

\* main after the loop: the switch on the mode, then w.Close().
Finish ==
    /\ pc = "loop"
    /\ i > Len(t.Funcs)
    /\ pc' = "done"
    /\ out' = CASE mode = "sql" ->
                     out \o <<Residual(unaccountedSize), Stmt("END TRANSACTION")>>
                [] mode = "json" -> out \o recs
                [] OTHER -> out
    /\ UNCHANGED <<Data, binSize, mode, t, i, stage, tab, unaccountedSize,
                   recs, names, emitted, lastEmit, q>>

Next == Start \/ Emit \/ Finish

Spec == Init /\ [][Next]_vars

----------------------------------------------------------------------------
(* The package used as a library: NewTable, then queries of the Table in   *)
(* any order.                                                              *)

InitLib ==
    \E n \in 0..MaxFuncs : \E data \in Images(n) : InitWith(data, "sql")

\* gosym.NewTable(data, 0)
LibNewTable ==
    /\ pc = "start"
    /\ \E r \in {NewTable(Data)} :
          /\ t' = r
          /\ pc' = CASE r.res = "ok" -> "ready"
                    [] r.res = "error" -> "fatal"
                    [] OTHER -> "panic"
    /\ UNCHANGED <<Data, binSize, mode, i, stage, tab, unaccountedSize, out,
                   recs, names, emitted, lastEmit, q>>

\* The table offsets a query is made with: none, and the three tables every
\* descriptor names.
QueryOffsets(f) == {0, f.OffPCSP, f.OffPCFile, f.OffPCLn}

\* The target pcs of a query for function f: the byte before it, its first
\* bytes, its last byte and the byte after it.
QueryPCs(f) ==
    {WSub(f.Entry, I64(1)), f.Entry, WAdd(f.Entry, I64(1)),
     WSub(f.End, I64(1)), f.End}

\* t.go12line.pcvalue(off, f.Entry, targetpc)
LibPcvalue ==
    /\ pc = "ready"
    /\ \E k \in 1..Len(t.Funcs) : \E off \in QueryOffsets(t.Funcs[k]) :
       \E targetpc \in QueryPCs(t.Funcs[k]) :
       \E r \in {pcvalue(t.lt, Data, off, t.Funcs[k].Entry, targetpc)} :
          q' = [op |-> "pcvalue", fn |-> k, off |-> off, targetpc |-> targetpc,
                ok |-> r.ok, val |-> r.val]
    /\ UNCHANGED <<Data, binSize, mode, pc, t, i, stage, tab, unaccountedSize,
                   out, recs, names, emitted, lastEmit>>

\* f.tableSize(off)
LibTableSize ==
    /\ pc = "ready"
    /\ \E k \in 1..Len(t.Funcs) : \E off \in QueryOffsets(t.Funcs[k]) :
       \E r \in {tableSize(t.lt, Data, t.Funcs[k], off)} :
          q' = [op |-> "tableSize", fn |-> k, off |-> off,
                ok |-> r.ok, size |-> r.size, calls |-> r.calls]
    /\ UNCHANGED <<Data, binSize, mode, pc, t, i, stage, tab, unaccountedSize,
                   out, recs, names, emitted, lastEmit>>

\* The offsets a string is asked for at: those the file map has cached, and
\* two small ones.
StringOffsets(caches) == DOMAIN caches.strings \cup {1, 2}

\* t.go12line.StringAtOffset(off), that is stringFrom(t.funcdata, off); a
\* panic leaves the caches as they were. The size and value queries do not
\* touch the caches, so the string queries are taken after them.
LibStringAtOffset ==
    /\ pc \in {"ready", "strings"}
    /\ pc' = "strings"
    /\ \E off \in StringOffsets(t.caches) :
       \E r \in {stringFrom(t.caches, Data, t.lt.funcdata, off)} :
          /\ q' = [op |-> "StringAtOffset", off |-> off, ok |-> r.ok, s |-> r.s]
          /\ t' = [t EXCEPT !.caches = r.st]
    /\ UNCHANGED <<Data, binSize, mode, i, stage, tab, unaccountedSize,
                   out, recs, names, emitted, lastEmit>>

NextLib == LibNewTable \/ LibPcvalue \/ LibTableSize \/ LibStringAtOffset

SpecLib == InitLib /\ [][NextLib]_vars

----------------------------------------------------------------------------
(* Properties of main (under Spec).                                        *)

\* The int64 sum of the sizes of the per-function rows among rows.
RECURSIVE SumSizes(_, _)
SumSizes(rows, acc) ==
    IF rows = <<>> THEN acc
    ELSE SumSizes(Tail(rows),
                  IF Head(rows).kind = "row" /\ Head(rows).what # <<"TODO">>
                  THEN WAdd(acc, Head(rows).size) ELSE acc)

\* A per-function row (not a statement, not the residual row).
IsFuncRow(r) == r.kind = "row" /\ r.what # <<"TODO">>

\* C1: during and after the attribution loop, the sizes passed to emit plus
\* unaccountedSize add up to the file size (in int64); when main is done in
\* a mode that writes rows, the sizes of the rows written (those of size 0
\* are not written) plus unaccountedSize add up to the file size as well,
\* and in sql mode the TODO row carries unaccountedSize.
C1_SizesAddUp ==
    /\ pc \in {"loop", "done"} =>
          WAdd(emitted, unaccountedSize) = I64(binSize)
    /\ (pc = "done" /\ mode \in {"sql", "tsv", "json"}) =>
          WAdd(SumSizes(out, WZero(8)), unaccountedSize) = I64(binSize)
    /\ (pc = "done" /\ mode = "sql") =>
          \E k \in 1..Len(out) : out[k] = Residual(unaccountedSize)

\* main is done in sql mode for two functions, the second without funcdata:
\* its funcdata row, of size 0, was skipped.
C1_Witness ==
    /\ pc = "done" /\ mode = "sql"
    /\ Len(t.Funcs) = 2
    /\ t.Funcs[2].NumFuncData = 0
    /\ \E k \in 1..Len(out) : IsFuncRow(out[k]) /\ out[k].name = t.Funcs[2].Name
    /\ ~ \E k \in 1..Len(out) :
            IsFuncRow(out[k]) /\ out[k].name = t.Funcs[2].Name
            /\ out[k].what = <<"funcdata">>

\* C2: when main is done in mode sql, tsv or json, the output holds exactly
\* one residual row (TODO, no function name, no package), and no
\* per-function row follows it.
C2_OneResidualRow ==
    (pc = "done" /\ mode \in {"sql", "tsv", "json"}) =>
        \E k \in 1..Len(out) :
            /\ out[k] = Residual(unaccountedSize)
            /\ \A j \in 1..Len(out) :
                  (out[j].kind = "row" /\ out[j].what = <<"TODO">>) => j = k
            /\ \A j \in (k + 1)..Len(out) : out[j].kind # "row"

\* C3: in the modes that write rows, a call of emit writes a row exactly
\* when its size is not 0; in every mode it subtracts the size from
\* unaccountedSize; no per-function row of size 0 is in the output.
C3_RowIffNonzero ==
    /\ (lastEmit.called /\ mode \in {"sql", "tsv", "json"}) =>
          (lastEmit.wrote <=> lastEmit.size # WZero(8))
    /\ lastEmit.called =>
          lastEmit.after = WSub(lastEmit.before, lastEmit.size)
    /\ \A k \in 1..Len(out) : IsFuncRow(out[k]) => out[k].size # WZero(8)
    /\ \A k \in 1..Len(recs) : IsFuncRow(recs[k]) => recs[k].size # WZero(8)

\* emit was just called with size 0 in tsv mode and wrote nothing, though
\* rows were written before.
C3_Witness ==
    /\ mode = "tsv" /\ pc = "loop"
    /\ lastEmit.called /\ lastEmit.size = WZero(8) /\ ~lastEmit.wrote
    /\ lastEmit.after = lastEmit.before
    /\ Len(out) > 0

----------------------------------------------------------------------------
(* Properties of NewTable (under Spec: t is its result once main has       *)
(* called it).                                                             *)

\* The first four bytes of the buffer read in byte order o as 0xffffffXX.
MagicIs(o, low) == SubSeq(Data, 1, 4) = OrderWord(o, <<low, 255, 255, 255>>)

\* Bytes 4..7 of the header are what the parser accepts.
FieldsAccepted ==
    /\ Data[5] = 0 /\ Data[6] = 0
    /\ Data[7] \in {1, 2, 4}
    /\ Data[8] \in {4, 8}

\* C4: NewTable returns the error and no Table when the buffer is shorter
\* than 16 bytes, byte 4 or 5 is not 0, byte 6 is not 1, 2 or 4, byte 7 is
\* not 4 or 8, or the first four bytes are no accepted magic in either byte
\* order.
C4_BadHeaderIsError ==
    (/\ t.res # "none"
     /\ \/ Len(Data) < 16
        \/ ~FieldsAccepted
        \/ ~ \E o \in Orders : MagicIs(o, 251) \/ MagicIs(o, 250))
    => (t.res = "error" /\ t.Funcs = <<>>)

\* NewTable has returned the error for a buffer of a full image whose
\* quantum byte is not 1, 2 or 4.
C4_Witness ==
    /\ t.res = "error"
    /\ Len(Data) > 16
    /\ Data[7] \notin {1, 2, 4}
    /\ Data[5] = 0 /\ Data[6] = 0 /\ Data[8] \in {4, 8}
    /\ \E o \in Orders : MagicIs(o, 251) \/ MagicIs(o, 250)

\* The 16 bytes FB FF FF FF 00 00 01 08 01 00 00 00 00 00 00 00.
Prefix16 == <<251, 255, 255, 255, 0, 0, 1, 8, 1, 0, 0, 0, 0, 0, 0, 0>>

SlicesInside ==
    \A s \in {t.lt.functab, t.lt.funcdata, t.lt.funcnametab, t.lt.filetab,
              t.lt.cutab, t.lt.pctab} :
        s.off >= 0 /\ s.len >= 0 /\ s.off + s.len <= Len(Data)

\* C6: after NewTable succeeds the version is ver12 or ver116, the quantum
\* is 1, 2 or 4, the pointer size 4 or 8, every sub-slice lies inside the
\* buffer, and functab is nfunctab*2*ptrsize + ptrsize bytes long.
C6_LineTableInvariants ==
    t.res = "ok" =>
        /\ t.lt.version \in {ver12, ver116}
        /\ t.lt.quantum \in {1, 2, 4}
        /\ t.lt.ptrsize \in {4, 8}
        /\ SlicesInside
        /\ WNat(t.lt.nfunctab) <= Len(Data)
        /\ t.lt.functab.len =
              WNat(t.lt.nfunctab) * 2 * t.lt.ptrsize + t.lt.ptrsize

C8_SizeQueriesNeverPanic == ~(t.res = "ok" /\ pc = "panic")

----------------------------------------------------------------------------
(* Properties of the queries (under SpecLib).                              *)

\* C10: tableSize(0) is 0 and runs the callback not once; pcvalue(0, entry,
\* targetpc) is -1.
C10_ZeroOffsetIsAbsent ==
    /\ (q.op = "tableSize" /\ q.off = 0) =>
          (q.ok /\ q.size = 0 /\ q.calls = 0)
    /\ (q.op = "pcvalue" /\ q.off = 0) => (q.ok /\ q.val = -1)

----------------------------------------------------------------------------
(* The pc-value queries on tables of chosen bytes (SpecTab): a region that *)
(* holds one table at offset 1, and a function of chosen Entry and End.    *)

MaxPairs == 2

\* The uvarint bytes of the deltas the tables are made of: value deltas
\* -1, +1, -2 and pc deltas 1, 2.
TabValueDeltas == {1, 2, 3}
TabPcDeltas == {1, 2}
TabPairs == {<<vd, pd>> : vd \in TabValueDeltas, pd \in TabPcDeltas}

\* The sequences of n pairs.
RECURSIVE TabPairSeqs(_)
TabPairSeqs(n) ==
    IF n = 0 THEN {<<>>}
    ELSE {Append(ps, p) : ps \in TabPairSeqs(n - 1), p \in TabPairs}

\* The bytes of a table: its pairs, then the terminator.
RECURSIVE TabBytes(_)
TabBytes(ps) ==
    IF ps = <<>> THEN <<0>> ELSE <<ps[1][1], ps[1][2]>> \o TabBytes(Tail(ps))

\* Tables that are not made of such pairs: a first value delta of 0, a pc
\* delta of 0, a varint that is cut short, a table without its pc delta, a
\* value delta of 2^32 (2^33 as a uvarint).
TabOdd == {<<0, 2, 0>>, <<2, 0, 0, 3, 0>>, <<130>>, <<2>>,
           <<128, 128, 128, 128, 32, 2, 0>>}

\* What follows the table in the region: nothing, or the bytes of a
\* neighbour.
TabTrails == {<<>>, <<5, 1>>}

\* The region: a byte that offset 0 would name, the table, the trail.
TabRegion(table, trail) == <<7>> \o table \o trail

\* The sum of the pc deltas of the first j pairs.
RECURSIVE TabSpan(_, _)
TabSpan(ps, j) == IF j = 0 THEN 0 ELSE TabSpan(ps, j - 1) + ps[j][2]

TabEntry == <<0, 16, 0, 0, 0, 0, 0, 0>>

\* The LineTable of a ver12 table of this quantum: funcdata and pctab are
\* the whole buffer.
TabLineTable(Q, data) ==
    [NewLineTable EXCEPT !.version = ver12, !.binary = "LE", !.quantum = Q,
                         !.ptrsize = 4, !.funcdata = Whole(data),
                         !.pctab = Whole(data)]

TabInitWith(data, Q, End) ==
    /\ Data = data
    /\ binSize = Len(data)
    /\ mode = "sql"
    /\ pc = "ready"
    /\ t = [NoTable EXCEPT !.res = "ok", !.lt = TabLineTable(Q, data),
                           !.Funcs = <<[Entry |-> TabEntry, End |-> End]>>]
    /\ i = 0 /\ stage = "fixedheader" /\ tab = 0
    /\ unaccountedSize = WZero(8)
    /\ out = <<>> /\ recs = <<>> /\ names = <<>>
    /\ emitted = WZero(8)
    /\ lastEmit = NoEmit
    /\ q = NoQuery

\* End is the pc of the last pair, or a byte later (the loop then runs on
\* after the last pair).
InitTab ==
    \/ \E n \in 0..MaxPairs : \E ps \in TabPairSeqs(n) : \E trail \in TabTrails :
       \E Q \in Quanta : \E d \in {0, 1} :
          /\ Q * TabSpan(ps, n) + d > 0
          /\ TabInitWith(TabRegion(TabBytes(ps), trail), Q,
                         WAdd(TabEntry, I64(Q * TabSpan(ps, n) + d)))
    \/ \E table \in TabOdd : \E trail \in TabTrails : \E Q \in Quanta :
          TabInitWith(TabRegion(table, trail), Q, WAdd(TabEntry, I64(2 * Q)))

\* Each behaviour makes one query. f.ForeachTableEntry(1, fn) and
\* f.tableSize(1), as symtab.go has them.
TabTableSize ==
    /\ pc = "ready"
    /\ \E r \in {ForeachTableEntry(t.lt, Data, t.Funcs[1], 1)} :
       \E s \in {tableSize(t.lt, Data, t.Funcs[1], 1)} :
          q' = [op |-> "tableSize", region |-> "funcdata", ok |-> s.ok,
                size |-> s.size, calls |-> s.calls, steps |-> r.steps,
                done |-> r.done]
    /\ pc' = "done"
    /\ UNCHANGED <<Data, binSize, mode, t, i, stage, tab, unaccountedSize,
                   out, recs, names, emitted, lastEmit>>

\* The same, as extra.go has them.
TabTableSizePctab ==
    /\ pc = "ready"
    /\ \E r \in {ForeachTableEntryPctab(t.lt, Data, t.Funcs[1], 1)} :
       \E s \in {tableSizePctab(t.lt, Data, t.Funcs[1], 1)} :
          q' = [op |-> "tableSize", region |-> "pctab", ok |-> s.ok,
                size |-> s.size, calls |-> s.calls, steps |-> r.steps,
                done |-> r.done]
    /\ pc' = "done"
    /\ UNCHANGED <<Data, binSize, mode, t, i, stage, tab, unaccountedSize,
                   out, recs, names, emitted, lastEmit>>

\* The distances from Entry of the target pcs: from the byte before the
\* function to the byte after the last pc a table of the model reaches.
TabTargets == (0 - 1)..(4 * 2 * MaxPairs + 1)

\* t.pcvalue(1, f.Entry, f.Entry + k)
TabPcvalue ==
    /\ pc = "ready"
    /\ \E k \in TabTargets :
       \E target \in {IF k < 0 THEN WSub(TabEntry, I64(0 - k))
                      ELSE WAdd(TabEntry, I64(k))} :
       \E r \in {pcvalue(t.lt, Data, 1, TabEntry, target)} :
          q' = [op |-> "pcvalue", k |-> k, targetpc |-> target,
                ok |-> r.ok, val |-> r.val, steps |-> r.steps]
    /\ pc' = "done"
    /\ UNCHANGED <<Data, binSize, mode, t, i, stage, tab, unaccountedSize,
                   out, recs, names, emitted, lastEmit>>

\* f.ForeachTableEntry(1, fn), and t.pcvalue(1, f.Entry, 1<<64 - 1), which
\* steps through the table to its terminator.
TabBoth ==
    /\ pc = "ready"
    /\ \E r \in {ForeachTableEntry(t.lt, Data, t.Funcs[1], 1)} :
       \E w \in {pcvalue(t.lt, Data, 1, TabEntry, MinusOne64)} :
          q' = [op |-> "both", entries |-> r, walk |-> w]
    /\ pc' = "done"
    /\ UNCHANGED <<Data, binSize, mode, t, i, stage, tab, unaccountedSize,
                   out, recs, names, emitted, lastEmit>>

NextTab == TabTableSize \/ TabTableSizePctab \/ TabPcvalue \/ TabBoth

SpecTab == InitTab /\ [][NextTab]_vars

\* The region holds the table of the pairs ps at offset 1.
HoldsTable(ps) ==
    /\ Len(Data) >= 1 + Len(TabBytes(ps))
    /\ SubSeq(Data, 1, 1 + Len(TabBytes(ps))) = <<7>> \o TabBytes(ps)

\* C11: for the table 02 02 00, tableSize is 3 and there is one step, with
\* val 0 and pc = entry + 2*quantum; and for every table of pairs whose
\* last pc is the function's End, tableSize is the number of bytes of the
\* table, the terminator included.
C11_TableSizeCountsTerminator ==
    q.op = "tableSize" =>
        /\ HoldsTable(<<(<<2, 2>>)>>) =>
              /\ q.ok /\ q.size = 3
              /\ Len(q.steps) = 1
              /\ q.steps[1].val = WZero(8)
              /\ q.steps[1].pc = WAdd(TabEntry, I64(2 * t.lt.quantum))
        /\ \A n \in 0..MaxPairs : \A ps \in TabPairSeqs(n) :
              (/\ HoldsTable(ps)
               /\ t.Funcs[1].End = WAdd(TabEntry, I64(t.lt.quantum * TabSpan(ps, n))))
              => (q.ok /\ q.size = Len(TabBytes(ps)))

\* The signed delta of the uvarint u of a value delta.
ZigZag(u) == IF u % 2 = 1 THEN 0 - ((u + 1) \div 2) ELSE u \div 2

\* The value after the first j pairs of ps, from -1.
RECURSIVE ValAfter(_, _)
ValAfter(ps, j) == IF j = 0 THEN 0 - 1 ELSE ValAfter(ps, j - 1) + ZigZag(ps[j][1])

\* The value of the first pair of ps whose pc, at quantum Q, is past
\* entry + k; -1 when there is none.
ValuePast(ps, Q, k) ==
    LET past == {j \in 1..Len(ps) : k < Q * TabSpan(ps, j)}
    IN IF past = {} THEN 0 - 1
       ELSE ValAfter(ps, CHOOSE j \in past : \A j2 \in past : j <= j2)

\* C12: for a table of one pair or more, pcvalue(off, entry, target) is the
\* val, counted from -1, of the first step whose pc, counted from entry, is
\* greater than target, and -1 when the terminator comes first; for a
\* target below entry it is the val after the first step.
C12_PcvalueFirstStepPast ==
    q.op = "pcvalue" =>
        /\ \A n \in 1..MaxPairs : \A ps \in TabPairSeqs(n) :
              HoldsTable(ps) =>
                  (q.ok /\ q.val = ValuePast(ps, t.lt.quantum, q.k))
        /\ (q.k < 0 /\ q.ok /\ Data[2] < 128) =>
              q.val = (0 - 1) + ZigZag(Data[2])

\* pcvalue has stepped over a first pair whose pc is the target and has
\* returned the val of the second, -1 + 1 - 2.
C12_Witness ==
    /\ q.op = "pcvalue" /\ q.ok
    /\ HoldsTable(<<(<<2, 1>>), (<<3, 2>>)>>)
    /\ t.lt.quantum = 1 /\ q.k = 1
    /\ q.val = 0 - 2

\* C13: every Func of the Table has End > Entry, and its End is the entry pc
\* stored in the next slot of functab (for the last Func, the slot at the
\* tail).
C13_EndAfterEntry ==
    t.res = "ok" =>
        \A k \in 1..Len(t.Funcs) :
            /\ WLt(t.Funcs[k].Entry, t.Funcs[k].End)
            /\ t.Funcs[k].End =
                  uintptr(t.lt.binary, t.lt.ptrsize, Data, t.lt.functab,
                          2 * k * t.lt.ptrsize)

----------------------------------------------------------------------------
(* Sym.PackageName on chosen names (SpecPkg). A name is the sequence of    *)
(* its bytes.                                                              *)

MaxName == 4

\* 'a', '.', '/'
NameBytes == {97, 46, 47}

RECURSIVE NamesOfLen(_)
NamesOfLen(n) ==
    IF n = 0 THEN {<<>>}
    ELSE {Append(w, b) : w \in NamesOfLen(n - 1), b \in NameBytes}

\* "context.(*emptyCtx).Err", "compress/gzip.(*Reader).Read", "go.buildid"
NameContextErr == <<99, 111, 110, 116, 101, 120, 116, 46, 40, 42, 101, 109, 112, 116, 121, 67, 116, 120, 41, 46, 69, 114, 114>>
NameGzipRead == <<99, 111, 109, 112, 114, 101, 115, 115, 47, 103, 122, 105, 112, 46, 40, 42, 82, 101, 97, 100, 101, 114, 41, 46, 82, 101, 97, 100>>
NameGoBuildid == <<103, 111, 46, 98, 117, 105, 108, 100, 105, 100>>

\* The names: every one of MaxName bytes or fewer, those after "go." and
\* "type.", and the three above.
PkgNames ==
    UNION {NamesOfLen(n) : n \in 0..MaxName}
    \cup {pre \o w : pre \in {<<103, 111, 46>>, <<116, 121, 112, 101, 46>>},
                     w \in UNION {NamesOfLen(n) : n \in 0..2}}
    \cup {NameContextErr, NameGzipRead, NameGoBuildid}

InitPkg ==
    /\ \E name \in PkgNames : names = <<name>>
    /\ Data = <<>> /\ binSize = 0 /\ mode = "sql" /\ pc = "ready"
    /\ t = NoTable
    /\ i = 0 /\ stage = "fixedheader" /\ tab = 0
    /\ unaccountedSize = WZero(8)
    /\ out = <<>> /\ recs = <<>>
    /\ emitted = WZero(8)
    /\ lastEmit = NoEmit
    /\ q = NoQuery

\* f.PackageName() for a Func of this name.
DerivePackage ==
    /\ pc = "ready"
    /\ pc' = "derived"
    /\ q' = [op |-> "PackageName", name |-> names[1],
             pkg |-> PackageName(names[1])]
    /\ UNCHANGED <<Data, binSize, mode, t, i, stage, tab, unaccountedSize,
                   out, recs, names, emitted, lastEmit>>

\* PackageName() of a symbol whose name is the package just derived.
DeriveAgain ==
    /\ pc = "derived"
    /\ pc' = "done"
    /\ q' = [op |-> "PackageNameAgain", name |-> q.name, pkg |-> q.pkg,
             again |-> PackageName(q.pkg)]
    /\ UNCHANGED <<Data, binSize, mode, t, i, stage, tab, unaccountedSize,
                   out, recs, names, emitted, lastEmit>>

NextPkg == DerivePackage \/ DeriveAgain

SpecPkg == InitPkg /\ [][NextPkg]_vars

\* The 0-based places of byte b in name.
PlacesOf(name, b) == {k \in 0..(Len(name) - 1) : name[k + 1] = b}

\* C14: PackageName is "" for a name that begins with "go." or "type.";
\* else, with p the place of the last '/' (0 when there is none), it is the
\* part of the name before the first '.' at or after p, and "" when there
\* is no such '.'. The three names of the claim give "context",
\* "compress/gzip" and "".
C14_PackageOfName ==
    q.op = "PackageName" =>
        /\ (HasPrefix(q.name, <<103, 111, 46>>) \/ HasPrefix(q.name, <<116, 121, 112, 101, 46>>))
              => q.pkg = <<>>
        /\ ~(HasPrefix(q.name, <<103, 111, 46>>) \/ HasPrefix(q.name, <<116, 121, 112, 101, 46>>))
              => \E p \in 0..Len(q.name) :
                    /\ \/ p \in PlacesOf(q.name, 47)
                       \/ p = 0 /\ PlacesOf(q.name, 47) = {}
                    /\ \A k \in PlacesOf(q.name, 47) : k <= p
                    /\ IF \A d \in PlacesOf(q.name, 46) : d < p
                       THEN q.pkg = <<>>
                       ELSE \E d \in PlacesOf(q.name, 46) :
                               /\ d >= p
                               /\ \A e \in PlacesOf(q.name, 46) : e >= p => d <= e
                               /\ q.pkg = SubSeq(q.name, 1, d)
        /\ q.name = NameContextErr => q.pkg = <<99, 111, 110, 116, 101, 120, 116>>
        /\ q.name = NameGzipRead => q.pkg = <<99, 111, 109, 112, 114, 101, 115, 115, 47, 103, 122, 105, 112>>
        /\ q.name = NameGoBuildid => q.pkg = <<>>

\* The package of "compress/gzip.(*Reader).Read" has been derived: the '.'
\* of the name's first element would not do.
C14_Witness ==
    /\ q.op = "PackageName"
    /\ q.name = NameGzipRead
    /\ q.pkg = <<99, 111, 109, 112, 114, 101, 115, 115, 47, 103, 122, 105, 112>>

\* C15 (amended): the package derived from a name holds no '.' at or after
\* its last '/', so the package derived from a package is "": deriving
\* twice gives what deriving once gives only where that is "".
C15_PackageOfPackageIsEmpty ==
    q.op = "PackageNameAgain" =>
        /\ q.again = <<>>
        /\ (q.again = q.pkg) <=> (q.pkg = <<>>)

\* The package "compress/gzip" was derived, and "" from it.
C15_Witness ==
    /\ q.op = "PackageNameAgain"
    /\ q.name = NameGzipRead
    /\ q.pkg = <<99, 111, 109, 112, 114, 101, 115, 115, 47, 103, 122, 105, 112>>
    /\ q.again = <<>>

\* C15 as claimed: where the derived package is not "", deriving the
\* package of that package gives it again.
C15_Claimed ==
    (q.op = "PackageNameAgain" /\ q.pkg # <<>>) => q.again = q.pkg

----------------------------------------------------------------------------
(* goPackageOfName of cmd/oldgosize on chosen symbols (SpecGoPkg).         *)

\* strings.TrimPrefix
TrimPrefix(name, pre) ==
    IF HasPrefix(name, pre) THEN SubSeq(name, Len(pre) + 1, Len(name)) ELSE name

\* strings.Index(name, "]"): 0-based, -1 when absent.
IndexBracket(name) ==
    IF \E k \in 1..Len(name) : name[k] = 93
    THEN (CHOOSE k \in 1..Len(name) :
              name[k] = 93 /\ \A j \in 1..(k - 1) : name[j] # 93) - 1
    ELSE -1

\* The loop over the bytes of name: the place of the first '.' after the
\* last '/', -1 when there is none.
DotStep(name, s) ==
    IF name[s.i + 1] = 47 THEN [i |-> s.i + 1, dot |-> -1, done |-> FALSE]
    ELSE IF name[s.i + 1] = 46 /\ s.dot = -1
         THEN [i |-> s.i + 1, dot |-> s.i, done |-> FALSE]
         ELSE [i |-> s.i + 1, dot |-> s.dot, done |-> FALSE]

DotOf(name) ==
    Iterate(LAMBDA s : DotStep(name, s),
            [i |-> 0, dot |-> -1, done |-> FALSE], Len(name)).dot

\* '0'..'9', 'a'..'f', 'A'..'F'
IsHex(b) == b \in (48..57) \cup (97..102) \cup (65..70)

UnHex(b) ==
    IF b \in 48..57 THEN b - 48
    ELSE IF b \in 97..102 THEN b - 97 + 10
    ELSE b - 65 + 10

\* url.PathUnescape: every "%XX" becomes the byte XX; a '%' that two hex
\* digits do not follow is an error.
RECURSIVE UnescapeFrom(_, _, _)
UnescapeFrom(name, k, acc) ==
    IF k > Len(name) THEN [ok |-> TRUE, path |-> acc]
    ELSE IF name[k] = 37
         THEN IF k + 2 > Len(name) \/ ~IsHex(name[k + 1]) \/ ~IsHex(name[k + 2])
              THEN [ok |-> FALSE, path |-> <<>>]
              ELSE UnescapeFrom(name, k + 3,
                       Append(acc, 16 * UnHex(name[k + 1]) + UnHex(name[k + 2])))
         ELSE UnescapeFrom(name, k + 1, Append(acc, name[k]))

PathUnescape(name) == UnescapeFrom(name, 1, <<>>)

\* goPackageOfName from the loop on: name is what is left of the symbol
\* after its first byte and the "type..eq." prefixes.
GoPackageCut(name) ==
    Bind(DotOf(name), LAMBDA dot :
        IF dot # -1
        THEN Bind(SubSeq(name, 1, dot), LAMBDA cut :
                 IF HasPrefix(cut, <<115, 116, 114, 117, 99, 116, 32, 123>>) \/ HasPrefix(cut, <<36>>) THEN <<>>
                 ELSE Bind(TrimPrefix(cut, <<116, 121, 112, 101, 46, 46, 104, 97, 115, 104, 46>>), LAMBDA h :
                          IF HasPrefix(h, <<95, 99, 103, 111, 101, 120, 112, 95>>) THEN <<99, 103, 111, 45, 101, 120, 112, 111, 114, 116>>
                          ELSE Bind(PathUnescape(h), LAMBDA u :
                                   IF u.ok THEN u.path ELSE h)))
        ELSE <<>>)

\* The name with "type..eq.[N]" and "type..eq." taken off its front.
StripEq(name) ==
    TrimPrefix(IF HasPrefix(name, <<116, 121, 112, 101, 46, 46, 101, 113, 46, 91>>)
               THEN SubSeq(name, IndexBracket(name) + 2, Len(name))
               ELSE name,
               <<116, 121, 112, 101, 46, 46, 101, 113, 46>>)

goPackageOfName(name) ==
    IF name = <<>> THEN <<>>
    ELSE IF name[1] # 95 /\ name[1] # 60 THEN <<>>
    ELSE IF HasPrefix(Tail(name), <<103, 111, 46>>) THEN <<>>
    ELSE GoPackageCut(StripEq(Tail(name)))

\* Path elements as written in a symbol (raw) and as they read (dec):
\* "a", "t.co", "%41" for "A".
PathElems ==
    {[raw |-> <<97>>, dec |-> <<97>>],
     [raw |-> <<116, 46, 99, 111>>, dec |-> <<116, 46, 99, 111>>],
     [raw |-> <<37, 52, 49>>, dec |-> <<65>>]}

\* Last elements, which hold no '.': "a", "cpu", "%41b" for "Ab".
PathLasts ==
    {[raw |-> <<97>>, dec |-> <<97>>],
     [raw |-> <<99, 112, 117>>, dec |-> <<99, 112, 117>>],
     [raw |-> <<37, 52, 49, 98>>, dec |-> <<65, 98>>]}

\* Import paths of one or two elements.
ImportPaths ==
    PathLasts \cup
    {[raw |-> e.raw \o <<47>> \o l.raw, dec |-> e.dec \o <<47>> \o l.dec] :
         e \in PathElems, l \in PathLasts}

\* "", "type..eq.", "type..eq.[24]", "type..hash."
SymPrefixes == {<<>>, <<116, 121, 112, 101, 46, 46, 101, 113, 46>>, <<116, 121, 112, 101, 46, 46, 101, 113, 46, 91, 50, 52, 93>>, <<116, 121, 112, 101, 46, 46, 104, 97, 115, 104, 46>>}

\* "Read", "(*T).M", ".inittask"
SymRests == {<<82, 101, 97, 100>>, <<40, 42, 84, 41, 46, 77>>, <<46, 105, 110, 105, 116, 116, 97, 115, 107>>}

\* Symbols '_' + prefix + import path + '.' + rest.
ShapedSyms ==
    {[shaped |-> TRUE, name |-> <<95>> \o pre \o ip.raw \o <<46>> \o rest,
      prefix |-> pre, want |-> ip.dec] :
         pre \in SymPrefixes, ip \in ImportPaths, rest \in SymRests}

\* Other names: "", "a.Read", "_go.buildid", "_go.a/b.c", "<a.Read",
\* "_nodot", "_a%zz.F", "_a%4.F", "_a%4", "_struct {}.eq", "_$f64.3ff",
\* "__cgoexp_1_f.x", "_type..eq.[", "_type..hash.a".
OtherSyms ==
    {[shaped |-> FALSE, name |-> n, prefix |-> <<>>, want |-> <<>>] :
         n \in {<<>>, <<97, 46, 82, 101, 97, 100>>, <<95, 103, 111, 46, 98, 117, 105, 108, 100, 105, 100>>, <<95, 103, 111, 46, 97, 47, 98, 46, 99>>,
                <<60, 97, 46, 82, 101, 97, 100>>, <<95, 110, 111, 100, 111, 116>>, <<95, 97, 37, 122, 122, 46, 70>>, <<95, 97, 37, 52, 46, 70>>,
                <<95, 97, 37, 52>>, <<95, 115, 116, 114, 117, 99, 116, 32, 123, 125, 46, 101, 113>>, <<95, 36, 102, 54, 52, 46, 51, 102, 102>>,
                <<95, 95, 99, 103, 111, 101, 120, 112, 95, 49, 95, 102, 46, 120>>, <<95, 116, 121, 112, 101, 46, 46, 101, 113, 46, 91>>, <<95, 116, 121, 112, 101, 46, 46, 104, 97, 115, 104, 46, 97>>}}

InitGoPkg ==
    /\ \E sym \in ShapedSyms \cup OtherSyms :
          /\ names = <<sym.name>>
          /\ q = [op |-> "symbol", name |-> sym.name, shaped |-> sym.shaped,
                  prefix |-> sym.prefix, want |-> sym.want]
    /\ Data = <<>> /\ binSize = 0 /\ mode = "sql" /\ pc = "ready"
    /\ t = NoTable
    /\ i = 0 /\ stage = "fixedheader" /\ tab = 0
    /\ unaccountedSize = WZero(8)
    /\ out = <<>> /\ recs = <<>>
    /\ emitted = WZero(8)
    /\ lastEmit = NoEmit

GoPackageOfName ==
    /\ pc = "ready"
    /\ pc' = "done"
    /\ q' = [op |-> "goPackageOfName", name |-> q.name, shaped |-> q.shaped,
             prefix |-> q.prefix, want |-> q.want,
             pkg |-> goPackageOfName(q.name)]
    /\ UNCHANGED <<Data, binSize, mode, t, i, stage, tab, unaccountedSize,
                   out, recs, names, emitted, lastEmit>>

NextGoPkg == GoPackageOfName

SpecGoPkg == InitGoPkg /\ [][NextGoPkg]_vars

\* C16: for a symbol '_' + prefix + import path + '.' + rest, with the
\* prefix one of "", "type..eq.", "type..eq.[N]", "type..hash." and no '.'
\* in the last element of the path, goPackageOfName returns the path,
\* percent-decoded; it returns "" for the empty name, for a name that
\* starts with neither '_' nor '<', and for a name that starts with "_go.".
C16_GoPackageOfName ==
    q.op = "goPackageOfName" =>
        /\ q.shaped => q.pkg = q.want
        /\ q.name = <<>> => q.pkg = <<>>
        /\ (q.name # <<>> /\ q.name[1] # 95 /\ q.name[1] # 60) => q.pkg = <<>>
        /\ HasPrefix(q.name, <<95, 103, 111, 46>>) => q.pkg = <<>>

----------------------------------------------------------------------------
(* main with -mode=json and -base: the records of the run are diffed       *)
(* against the records read from the base file (SpecDiff).                 *)

MaxRecs == 2

\* Signed a < b of two int64.
Int64Less(a, b) ==
    IF (a[8] >= 128) # (b[8] >= 128) THEN a[8] >= 128 ELSE WLt(a, b)

RecKey(r) == [name |-> r.name, pkg |-> r.pkg, what |-> r.what]

Rec(k, size) == Row(k.name, k.pkg, k.what, size)

\* m[r.RecKey] = r.Size for each record in turn: the last one of a key stays.
recMap(rs) ==
    [k \in {RecKey(rs[j]) : j \in 1..Len(rs)} |->
        rs[CHOOSE j \in 1..Len(rs) :
               /\ RecKey(rs[j]) = k
               /\ \A h \in (j + 1)..Len(rs) : RecKey(rs[h]) # k].size]

\* a without any delete.
DroppedKeepsAll(a, b) == DOMAIN a

\* The keys left in a after the first loop has deleted those it found in b.
Dropped(a, b) == DOMAIN a \ DOMAIN b

\* size - oldSize in the first loop; oldSize is 0 for a key a has not.
Change(a, b, k) == WSub(b[k], IF k \in DOMAIN a THEN a[k] ELSE WZero(8))

\* The map diff after the two loops.
DiffOf(a, b) ==
    [k \in {h \in DOMAIN b : Change(a, b, h) # WZero(8)} \cup Dropped(a, b) |->
        IF k \in Dropped(a, b) THEN WSub(WZero(8), a[k]) ELSE Change(a, b, k)]

\* The orders in which a range over a map of these keys can give them.
RangeOrders(S) ==
    {Tuple(f) : f \in {g \in [1..Cardinality(S) -> S] :
                          \A x, y \in 1..Cardinality(S) : x # y => g[x] # g[y]}}

\* A less that puts the larger size first.
RecLessDescending(x, y) == Int64Less(y.size, x.size)

\* The less function given to sort.Slice.
RecLess(x, y) == Int64Less(x.size, y.size)

\* x put into the sorted rs before the first record it is less than.
InsertRec(x, rs) ==
    IF \E j \in 1..Len(rs) : RecLess(x, rs[j])
    THEN Bind(CHOOSE j \in 1..Len(rs) :
                  RecLess(x, rs[j]) /\ \A h \in 1..(j - 1) : ~RecLess(x, rs[h]),
              LAMBDA j : SubSeq(rs, 1, j - 1) \o <<x>> \o SubSeq(rs, j, Len(rs)))
    ELSE Append(rs, x)

\* sort.Slice: the order of records of equal size is that of rs here and
\* any order in Go; every order of rs is tried.
RECURSIVE SortSlice(_, _)
SortSlice(rs, acc) ==
    IF rs = <<>> THEN acc ELSE SortSlice(Tail(rs), InsertRec(Head(rs), acc))

\* diffMap(a, b) when the range over diff gives the keys in this order.
diffMap(a, b, order) ==
    SortSlice(Tuple([j \in 1..Len(order) |-> Rec(order[j], DiffOf(a, b)[order[j]])]),
              <<>>)

\* main/main/text and other/pkg/text
DiffKeys ==
    {[name |-> <<109, 97, 105, 110>>, pkg |-> <<109, 97, 105, 110>>, what |-> <<"text">>],
     [name |-> <<111, 116, 104, 101, 114>>, pkg |-> <<112, 107, 103>>, what |-> <<"text">>]}

\* 0, 20 and the least int64
DiffSizes == {WZero(8), I64(20), <<0, 0, 0, 0, 0, 0, 0, 128>>}

RECURSIVE RecLists(_)
RecLists(n) ==
    IF n = 0 THEN {<<>>}
    ELSE {Append(rs, Rec(k, size)) :
             rs \in RecLists(n - 1), k \in DiffKeys, size \in DiffSizes}

InitDiff ==
    /\ \E old \in UNION {RecLists(n) : n \in 0..MaxRecs} :
       \E new \in UNION {RecLists(n) : n \in 0..MaxRecs} :
          /\ recs = new
          /\ q = [op |-> "base", old |-> old]
    /\ Data = <<>> /\ binSize = 0 /\ mode = "json" /\ pc = "loop"
    /\ t = NoTable
    /\ i = 1 /\ stage = "fixedheader" /\ tab = 0
    /\ unaccountedSize = WZero(8)
    /\ out = <<>> /\ names = <<>>
    /\ emitted = WZero(8)
    /\ lastEmit = NoEmit

\* case "json" with *base set: recs = diffMap(recMap(old), recMap(recs)),
\* then je.Encode(recs).
FinishDiff ==
    /\ pc = "loop"
    /\ pc' = "done"
    /\ \E a \in {recMap(q.old)} : \E b \in {recMap(recs)} :
       \E order \in RangeOrders(DOMAIN DiffOf(a, b)) :
          /\ recs' = diffMap(a, b, order)
          /\ out' = recs'
          /\ q' = [op |-> "diff", old |-> q.old, new |-> recs, order |-> order]
    /\ UNCHANGED <<Data, binSize, mode, t, i, stage, tab, unaccountedSize,
                   names, emitted, lastEmit>>

NextDiff == FinishDiff

SpecDiff == InitDiff /\ [][NextDiff]_vars

\* The delta the claim gives key k of baseline a and current b.
DeltaOf(a, b, k) ==
    IF k \in DOMAIN a /\ k \in DOMAIN b THEN WSub(b[k], a[k])
    ELSE IF k \in DOMAIN b THEN b[k]
    ELSE WSub(WZero(8), a[k])

\* C17: the result of diffMap(a, b) has one record for each key whose delta
\* is not zero and none of size 0: b[k] - a[k] for a key in both, b[k] for a
\* key in b only, -a[k] for a key in a only.
C17_DiffHasNonzeroDeltas ==
    q.op = "diff" =>
        /\ \A j \in 1..Len(recs) : recs[j].size # WZero(8)
        /\ \A k \in DOMAIN recMap(q.old) \cup DOMAIN recMap(q.new) :
              IF DeltaOf(recMap(q.old), recMap(q.new), k) # WZero(8)
              THEN \E j \in 1..Len(recs) :
                      /\ recs[j] = Rec(k, DeltaOf(recMap(q.old), recMap(q.new), k))
                      /\ \A h \in 1..Len(recs) : RecKey(recs[h]) = k => h = j
              ELSE \A j \in 1..Len(recs) : RecKey(recs[j]) # k
        /\ \A j \in 1..Len(recs) :
              RecKey(recs[j]) \in DOMAIN recMap(q.old) \cup DOMAIN recMap(q.new)

\* C18: the records diffMap returns are in ascending order of size, as
\* signed numbers: no record is followed by one of a lesser size.
C18_DiffSortedAscending ==
    q.op = "diff" =>
        \A j \in 1..(Len(recs) - 1) : ~Int64Less(recs[j + 1].size, recs[j].size)

\* The range over diff gave a positive delta before a negative one and the
\* result has the negative one first.
C18_Witness ==
    /\ q.op = "diff"
    /\ Len(recs) = 2
    /\ RecKey(recs[1]) = q.order[2]
    /\ recs[1].size[8] >= 128
    /\ recs[2].size[8] < 128

\* C19: a list of records diffed against an equal list gives no records.
C19_SelfDiffIsEmpty ==
    (q.op = "diff" /\ q.old = q.new) => recs = <<>>

\* A list that has one key twice, with two sizes, was diffed against itself.
C19_Witness ==
    /\ q.op = "diff"
    /\ q.old = q.new
    /\ Len(q.old) = 2
    /\ RecKey(q.old[1]) = RecKey(q.old[2])
    /\ q.old[1].size # q.old[2].size
    /\ q.old[2].size # WZero(8)
    /\ recs = <<>>

----------------------------------------------------------------------------
(* The order of the emit calls of main (Spec).                             *)

\* The row kind of an emit call: the table number stands for "pcdata<n>".
WhatKind(what) == IF what[1] = "pcdata" THEN <<"pcdata", what[2]>> ELSE what

\* The emit call the claim has follow the call prev, for a function of n
\* pcdata tables.
WhatAfter(prev, n) ==
    IF ~prev.called THEN <<"fixedheader">>
    ELSE CASE prev.what = <<"fixedheader">> -> <<"funcdata">>
           [] prev.what = <<"funcdata">> -> <<"pcsp">>
           [] prev.what = <<"pcsp">> -> <<"pcfile">>
           [] prev.what = <<"pcfile">> -> <<"pcln">>
           [] prev.what = <<"pcln">> ->
                IF n > 0 THEN <<"pcdata", 0>> ELSE <<"text">>
           [] prev.what[1] = "pcdata" ->
                IF prev.what[2] + 1 < n THEN <<"pcdata", prev.what[2] + 1>>
                ELSE <<"text">>
           [] prev.what = <<"text">> -> <<"funcname">>
           [] OTHER -> <<"fixedheader">>

\* C20: the emit calls come function by function in the order of the
\* function table, and for each function in the order fixedheader, funcdata,
\* pcsp, pcfile, pcln, pcdata0 .. pcdata(NumPCData-1), text, funcname; every
\* pcdata call writes its row, and a row written is the row of the call,
\* put after the rows written before it.
C20_EmitOrderIsFixed ==
    [][lastEmit' # lastEmit =>
          /\ i \in 1..Len(t.Funcs)
          /\ ~lastEmit.called => i = 1
          /\ WhatKind(lastEmit'.what) = WhatAfter(lastEmit, t.Funcs[i].NumPCData)
          /\ i' = IF lastEmit'.what = <<"funcname">> THEN i + 1 ELSE i
          /\ names' = SubSeq([j \in 1..Len(t.Funcs) |-> t.Funcs[j].Name], 1, i)
          /\ (lastEmit'.what[1] = "pcdata" /\ mode \in {"sql", "tsv", "json"})
                => lastEmit'.wrote
          /\ \E rows \in {IF lastEmit'.wrote
                            THEN <<Row(t.Funcs[i].Name, PackageName(t.Funcs[i].Name),
                                       lastEmit'.what, lastEmit'.size)>>
                            ELSE <<>>} :
                /\ out' = out \o (IF mode = "json" THEN <<>> ELSE rows)
                /\ recs' = recs \o (IF mode = "json" THEN rows ELSE <<>>)
    ]_vars

\* The text call of the second function, which has no pcdata tables, has
\* been made after the eight calls and the two pcdata rows of the first.
C20_Witness ==
    /\ pc = "loop"
    /\ mode = "sql"
    /\ i = 2
    /\ lastEmit.what = <<"text">>
    /\ t.Funcs[1].NumPCData = 2
    /\ t.Funcs[2].NumPCData = 0
    /\ Cardinality({j \in 1..Len(out) :
                       out[j].kind = "row" /\ out[j].what[1] = "pcdata"}) = 2

----------------------------------------------------------------------------
(* Table.PCToFunc on Tables of a few functions (SpecFind).                 *)

MaxTableFuncs == 3

\* A step of the search that goes left when pc is the entry of the middle
\* function.
PCToFuncStepLeftOnEntry(funcs, target, s) ==
    IF s.len = 0 THEN [s EXCEPT !.done = TRUE]
    ELSE Bind(funcs[s.off + s.len \div 2 + 1], LAMBDA fn :
             IF ~WLt(fn.Entry, target)
             THEN [s EXCEPT !.len = s.len \div 2]
             ELSE IF WLt(target, fn.End)
             THEN [s EXCEPT !.res = s.off + s.len \div 2 + 1, !.done = TRUE]
             ELSE [s EXCEPT !.off = s.off + s.len \div 2 + 1,
                            !.len = s.len - (s.len \div 2 + 1)])

\* One turn of the loop of PCToFunc: funcs is funcs[off : off+len] of
\* t.Funcs, res the place in t.Funcs of the function returned (0 for nil).
PCToFuncStep(funcs, target, s) ==
    IF s.len = 0 THEN [s EXCEPT !.done = TRUE]
    ELSE Bind(funcs[s.off + s.len \div 2 + 1], LAMBDA fn :
             IF WLt(target, fn.Entry)
             THEN [s EXCEPT !.len = s.len \div 2]
             ELSE IF WLt(target, fn.End)
             THEN [s EXCEPT !.res = s.off + s.len \div 2 + 1, !.done = TRUE]
             ELSE [s EXCEPT !.off = s.off + s.len \div 2 + 1,
                            !.len = s.len - (s.len \div 2 + 1)])

\* PCToFunc(pc), given as many turns as there are functions and one more:
\* done tells whether the loop has ended by then.
PCToFunc(funcs, target) ==
    Iterate(LAMBDA s : PCToFuncStep(funcs, target, s),
            [off |-> 0, len |-> Len(funcs), res |-> 0, done |-> FALSE],
            Len(funcs) + 1)

\* Functions laid out from pc start on: before each a gap of 0 or 1 bytes,
\* each of 0, 1 or 2 bytes.
RECURSIVE FuncsLaidOut(_, _)
FuncsLaidOut(n, start) ==
    IF n = 0 THEN {<<>>}
    ELSE UNION {{<<[Entry |-> WAdd(start, I64(gap)),
                    End |-> WAdd(start, I64(gap + size))]>> \o rest :
                    rest \in FuncsLaidOut(n - 1, WAdd(start, I64(gap + size)))} :
                gap \in {0, 1}, size \in {0, 1, 2}}

\* 0x1000 and 2^64 - 16
FindBases == {<<0, 16, 0, 0, 0, 0, 0, 0>>,
              <<240, 255, 255, 255, 255, 255, 255, 255>>}

\* The Funcs of the Tables at a base: laid out in ascending order, and such
\* a layout with its first and last function exchanged.
FindTables(base) ==
    UNION {FuncsLaidOut(n, base) : n \in 0..MaxTableFuncs}
    \cup {[fs EXCEPT ![1] = fs[Len(fs)], ![Len(fs)] = fs[1]] :
             fs \in FuncsLaidOut(MaxTableFuncs, base)}

InitFind ==
    /\ \E base \in FindBases : \E fs \in FindTables(base) :
          /\ t = [NoTable EXCEPT !.res = "ok", !.Funcs = fs]
          /\ q = [op |-> "table", base |-> base]
    /\ Data = <<>> /\ binSize = 0 /\ mode = "sql" /\ pc = "ready"
    /\ i = 0 /\ stage = "fixedheader" /\ tab = 0
    /\ unaccountedSize = WZero(8)
    /\ out = <<>> /\ recs = <<>> /\ names = <<>>
    /\ emitted = WZero(8)
    /\ lastEmit = NoEmit

\* t.PCToFunc(pc) for a pc from the byte before the base to past the last
\* function.
FindPCToFunc ==
    /\ pc = "ready"
    /\ \E k \in 0..(3 * MaxTableFuncs + 2) :
       \E target \in {WAdd(WSub(q.base, I64(1)), I64(k))} :
       \E r \in {PCToFunc(t.Funcs, target)} :
          q' = [op |-> "PCToFunc", targetpc |-> target, res |-> r.res,
                done |-> r.done]
    /\ pc' = "done"
    /\ UNCHANGED <<Data, binSize, mode, t, i, stage, tab, unaccountedSize,
                   out, recs, names, emitted, lastEmit>>

NextFind == FindPCToFunc

SpecFind == InitFind /\ [][NextFind]_vars

\* Whether function f contains pc: f.Entry <= pc < f.End.
Contains(f, target) == ~WLt(target, f.Entry) /\ WLt(target, f.End)

\* Funcs in ascending order of pc, none overlapping the next.
AscendingFuncs(fs) ==
    /\ \A j \in 1..Len(fs) : ~WLt(fs[j].End, fs[j].Entry)
    /\ \A j \in 1..(Len(fs) - 1) : ~WLt(fs[j + 1].Entry, fs[j].End)

\* C21: on a Table whose Funcs are in ascending order without overlap,
\* PCToFunc(pc) ends, returns the one function that contains pc when there
\* is one, and nil when there is none.
C21_PCToFuncFindsContaining ==
    (q.op = "PCToFunc" /\ AscendingFuncs(t.Funcs)) =>
        /\ q.done
        /\ q.res # 0 =>
              /\ q.res \in 1..Len(t.Funcs)
              /\ Contains(t.Funcs[q.res], q.targetpc)
              /\ \A j \in 1..Len(t.Funcs) :
                    Contains(t.Funcs[j], q.targetpc) => j = q.res
        /\ q.res = 0 => \A j \in 1..Len(t.Funcs) : ~Contains(t.Funcs[j], q.targetpc)

\* The first byte of the last of three functions was looked up and found,
\* past a function of no bytes.
C21_Witness ==
    /\ q.op = "PCToFunc"
    /\ AscendingFuncs(t.Funcs)
    /\ Len(t.Funcs) = 3
    /\ t.Funcs[2].Entry = t.Funcs[2].End
    /\ q.targetpc = t.Funcs[3].Entry
    /\ q.res = 3

----------------------------------------------------------------------------
(* The two decoders of a pc-value table, turn by turn (SpecTab).           *)

\* Whether the value delta that pcvalue reads at position pos of the table
\* is zero.
ZeroDeltaAt(pos) ==
    \E uv \in {readvarint(Data, SliceFrom(t.lt.pctab, 1), pos)} :
        uv.ok /\ uv.lo = 0 /\ uv.hi = 0

\* C22: in the loop of pcvalue a value delta of zero is taken for a pair on
\* the first turn only and ends the table on every later turn, also when
\* the first pair has a pc delta of 0.
C22_ZeroDeltaEndsTable ==
    q.op = "pcvalue" =>
        /\ \A j \in 2..Len(q.steps) : ~ZeroDeltaAt(q.steps[j].pos)
        /\ (q.ok /\ ZeroDeltaAt(0)) => Len(q.steps) >= 1

\* The pc of ForeachTableEntry before its turn j.
PcBefore(j) == IF j = 1 THEN t.Funcs[1].Entry ELSE q.steps[j - 1].pc

\* C23: ForeachTableEntry runs the callback for a step only if pc < f.End
\* held before the step, whether or not a terminator has been read, and its
\* loop ends.
C23_NoStepAtOrPastEnd ==
    q.op = "tableSize" =>
        /\ q.done
        /\ \A j \in 1..Len(q.steps) : WLt(PcBefore(j), t.Funcs[1].End)
        /\ q.calls = Len(q.steps)

\* The pairs 02 01, 03 02 bring pc to End; the loop has ended there after
\* two steps, with the terminator and the bytes after it unread.
C23_Witness ==
    /\ q.op = "tableSize" /\ q.ok /\ q.done
    /\ HoldsTable(<<(<<2, 1>>), (<<3, 2>>)>>)
    /\ Len(Data) > 1 + Len(TabBytes(<<(<<2, 1>>), (<<3, 2>>)>>))
    /\ Len(q.steps) = 2
    /\ q.steps[2].pc = t.Funcs[1].End
    /\ q.size = 4

\* int64(v) of an int32.
Int64Of(v) == IF v < 0 THEN WNot(I64((0 - v) - 1)) ELSE I64(v)

\* C24: where the steps of pcvalue run through a table to its terminator,
\* ForeachTableEntry hands its callback the same steps, one for one, with
\* the same pc and val, and no more.
C24_DecodersAgree ==
    (q.op = "both" /\ q.walk.ok) =>
        /\ q.entries.ok
        /\ Len(q.entries.steps) = Len(q.walk.steps)
        /\ \A j \in 1..Len(q.walk.steps) :
              j <= Len(q.entries.steps) =>
                  /\ q.entries.steps[j].pc = q.walk.steps[j].pc
                  /\ q.entries.steps[j].val = Int64Of(q.walk.steps[j].val)

----------------------------------------------------------------------------
(* The size of the function table (Spec).                                  *)

\* C25: after a successful NewTable the function table has
\* nfunctab*2*ptrsize + ptrsize bytes, the product taken without wrapping,
\* and the Table has nfunctab Funcs.
C25_FunctabSizeExact ==
    t.res = "ok" =>
        /\ WNat(t.lt.nfunctab) < Huge
        /\ t.lt.functab.len = WNat(t.lt.nfunctab) * 2 * t.lt.ptrsize + t.lt.ptrsize
        /\ Len(t.Funcs) = WNat(t.lt.nfunctab)

----------------------------------------------------------------------------
(* The string cache of the line table (SpecLib).                           *)

\* The total length of the strings of a cache.
RECURSIVE SumLens(_, _)
SumLens(strings, offs) ==
    IF offs = {} THEN 0
    ELSE Bind(CHOOSE off \in offs : TRUE, LAMBDA off :
              Len(strings[off]) + SumLens(strings, offs \ {off}))

\* C26: StringAtOffset(off) returns the bytes of funcdata from off up to the
\* first NUL, whatever was looked up before and in whichever region, and
\* stringLen is the total length of the strings in the cache.
C26_StringIsOfItsRegion ==
    /\ (q.op = "StringAtOffset" /\ q.ok) =>
          q.s = StringAt(Data, t.lt.funcdata, q.off)
    /\ t.res = "ok" =>
          t.caches.stringLen = SumLens(t.caches.strings, DOMAIN t.caches.strings)

----------------------------------------------------------------------------
(* Concurrent callers of isGo12 on one LineTable.                          *)

\* The goroutines that call isGo12 on the same LineTable.
MaxCallers == 2
Callers == 1..MaxCallers

\* A mutex that never makes a caller wait.
MuFreeAlways(mu) == TRUE

\* t.mu.Lock() returns when no goroutine holds the mutex.
MuFree(mu) == mu = 0

\* The images the callers parse: well-formed ones of no and of one function,
\* and ones with a damaged header or a cut tail.
ParDamaged(data) ==
    {SetByte(data, pos, b) : pos \in 0..15, b \in DamageBytes}
    \cup {SetByte(data, pos, 240) : pos \in {0, 3}}
    \cup {CutTo(data, n) : n \in {0, 8, 15, 16}}
    \cup {CutTo(data, Len(data) - c) : c \in 1..MaxCut}

ParImages ==
    Images(0) \cup Images(1) \cup UNION {ParDamaged(img) : img \in DamageBases(1)}

\* Each caller is about to call isGo12; nothing is parsed. q holds the
\* mutex (0 when free, else its holder), where each caller is, what each
\* caller read of the version, what isGo12 returned to it, the possible
\* version of the caller in the body, and how often the body was entered.
InitPar ==
    \E data \in ParImages :
       /\ Data = data
       /\ binSize = Len(data) + 65536
       /\ mode = "sql"
       /\ pc = "callers"
       /\ t = NoTable
       /\ i = 0 /\ stage = "fixedheader" /\ tab = 0
       /\ unaccountedSize = WZero(8)
       /\ out = <<>> /\ recs = <<>> /\ names = <<>>
       /\ emitted = WZero(8)
       /\ lastEmit = NoEmit
       /\ q = [op |-> "isGo12", mu |-> 0,
               at |-> [g \in Callers |-> "call"],
               saw |-> [g \in Callers |-> verUnknown],
               ret |-> [g \in Callers |-> FALSE],
               possibleVersion |-> verUnknown,
               bodies |-> 0]

\* t.mu.Lock()
ParLock ==
    \E g \in Callers :
       /\ q.at[g] = "call"
       /\ MuFree(q.mu)
       /\ q' = [q EXCEPT !.mu = g, !.at[g] = "locked"]
       /\ UNCHANGED <<Data, binSize, mode, pc, t, i, stage, tab,
                      unaccountedSize, out, recs, names, emitted, lastEmit>>

\* if t.version != verUnknown { return }; t.version = ver11
ParCheck ==
    \E g \in Callers :
       /\ q.at[g] = "locked"
       /\ IF t.lt.version # verUnknown
          THEN /\ q' = [q EXCEPT !.at[g] = "unlock"]
               /\ t' = t
          ELSE /\ q' = [q EXCEPT !.at[g] = "body", !.bodies = @ + 1]
               /\ t' = [t EXCEPT !.lt.version = ver11]
       /\ UNCHANGED <<Data, binSize, mode, pc, i, stage, tab,
                      unaccountedSize, out, recs, names, emitted, lastEmit>>

\* The header check, the magic switch and the sub-slices: every field but
\* the version. An early return or a panic (recovered by the deferred
\* function) leaves the fields assigned so far and goes on to the
\* deferred Unlock.
ParBody ==
    \E g \in Callers :
       /\ q.at[g] = "body"
       /\ \E r \in {parsePclnTab([t.lt EXCEPT !.version = verUnknown], Data)} :
             /\ t' = [t EXCEPT !.lt = [r EXCEPT !.version = t.lt.version]]
             /\ q' = IF r.version >= ver12
                     THEN [q EXCEPT !.at[g] = "commit",
                                    !.possibleVersion = r.version]
                     ELSE [q EXCEPT !.at[g] = "unlock"]
       /\ UNCHANGED <<Data, binSize, mode, pc, i, stage, tab,
                      unaccountedSize, out, recs, names, emitted, lastEmit>>

\* t.version = possibleVersion
ParCommit ==
    \E g \in Callers :
       /\ q.at[g] = "commit"
       /\ t' = [t EXCEPT !.lt.version = q.possibleVersion]
       /\ q' = [q EXCEPT !.at[g] = "unlock"]
       /\ UNCHANGED <<Data, binSize, mode, pc, i, stage, tab,
                      unaccountedSize, out, recs, names, emitted, lastEmit>>

\* defer t.mu.Unlock()
ParUnlock ==
    \E g \in Callers :
       /\ q.at[g] = "unlock"
       /\ q' = [q EXCEPT !.mu = 0, !.at[g] = "read"]
       /\ UNCHANGED <<Data, binSize, mode, pc, t, i, stage, tab,
                      unaccountedSize, out, recs, names, emitted, lastEmit>>

\* return t.version >= ver12, read after the mutex was released.
ParRead ==
    \E g \in Callers :
       /\ q.at[g] = "read"
       /\ q' = [q EXCEPT !.at[g] = "done", !.saw[g] = t.lt.version,
                         !.ret[g] = isGo12(t.lt)]
       /\ UNCHANGED <<Data, binSize, mode, pc, t, i, stage, tab,
                      unaccountedSize, out, recs, names, emitted, lastEmit>>

NextPar == ParLock \/ ParCheck \/ ParBody \/ ParCommit \/ ParUnlock \/ ParRead

SpecPar == InitPar /\ [][NextPar]_vars

\* What one caller alone makes of the image.
ParsedAlone == parsePclnTab(NewLineTable, Data)

\* The LineTable and the callers at rest.
ParseOnceState ==
    /\ q.bodies <= 1
    /\ \A g \in Callers :
          /\ q.at[g] = "done" =>
                /\ q.saw[g] = ParsedAlone.version
                /\ q.saw[g] = t.lt.version
                /\ q.ret[g] = (ParsedAlone.version >= ver12)
                /\ ParsedAlone.version = ver11 => ~q.ret[g]
          /\ q.at[g] = "read" =>
                \A h \in Callers : q.at[h] \notin {"body", "commit"}
    /\ t.lt.version >= ver12 =>
          /\ t.lt = ParsedAlone
          /\ t.lt.version \in {ver12, ver116}
    /\ (\A g \in Callers : q.at[g] \in {"read", "done"}) =>
          t.lt.version = ParsedAlone.version

\* The writes of the version: to ver12 or ver116 with no other field
\* written in the step, and nothing is written after it.
ParseOnceStep ==
    /\ (t.lt.version < ver12 /\ t'.lt.version >= ver12) =>
          t'.lt = [t.lt EXCEPT !.version = t'.lt.version]
    /\ t.lt.version >= ver12 => t'.lt = t.lt

\* C27: however the calls of isGo12 on one LineTable interleave, the body
\* of parsePclnTab runs at most once, every caller reads the version one
\* caller alone would have left, the version becomes ver12 or ver116 only
\* in the last write after every sub-slice was set, and on a failing path
\* it stays ver11 and isGo12 returns false.
C27_ParsedOnceForAll ==
    [](q.op = "isGo12" => ParseOnceState) /\ [][ParseOnceStep]_vars

\* Both callers have returned from isGo12 with true, one of them having
\* run the body.
C27_Witness ==
    /\ q.op = "isGo12"
    /\ \A g \in Callers : q.at[g] = "done" /\ q.ret[g]
    /\ q.bodies = 1

----------------------------------------------------------------------------
(* Concurrent queries of one Table: the lazy caches of its LineTable.      *)

NoString == [ok |-> TRUE, has |-> FALSE, arr |-> NilSlice, off |-> 0]
PanicString == [ok |-> FALSE, has |-> FALSE, arr |-> NilSlice, off |-> 0]

\* pcToFile for a pc of the function f that findFunc found: the region
\* and the offset handed to stringFrom, no string when "" is returned, or a
\* panic.
pcToFile(lt, data, f, targetpc) ==
    Bind(pcvalue(lt, data, f.OffPCFile, f.Entry, targetpc), LAMBDA r :
    IF ~r.ok THEN PanicString
    ELSE IF lt.version = ver12
    THEN (IF r.val <= 0 THEN NoString
          ELSE IF ~CanRead(lt.filetab, 4 * r.val, 4) THEN PanicString
          ELSE [ok |-> TRUE, has |-> TRUE, arr |-> lt.funcdata,
                off |-> WNat(Uint32(lt.binary, data, lt.filetab, 4 * r.val))])
    ELSE IF r.val < 0 THEN NoString
    ELSE Bind(WNat(field(lt, data, f.funcStructBytes, 7)), LAMBDA cuoff :
         IF ~CanRead(lt.cutab, (cuoff + r.val) * 4, 4) THEN PanicString
         ELSE Bind(Uint32(lt.binary, data, lt.cutab, (cuoff + r.val) * 4),
                   LAMBDA fnoff :
              IF fnoff = WNot(WZero(4)) THEN NoString
              ELSE [ok |-> TRUE, has |-> TRUE, arr |-> lt.filetab,
                    off |-> WNat(fnoff)])))

\* The Tables the goroutines query: NewTable has returned them.
RaceImages == DamageBases(1) \cup DamageBases(MaxFuncs)

\* q holds the mutex, where each goroutine is, the stringFrom call it is in
\* (the region, the offset, the string to store, the stringLen it read).
NoCall == [arr |-> NilSlice, off |-> 0, s |-> <<>>, len |-> 0]

InitRace ==
    \E data \in RaceImages :
       /\ Data = data
       /\ binSize = Len(data) + 65536
       /\ mode = "sql"
       /\ pc = "queries"
       /\ t = NewTable(data)
       /\ i = 0 /\ stage = "fixedheader" /\ tab = 0
       /\ unaccountedSize = WZero(8)
       /\ out = <<>> /\ recs = <<>> /\ names = <<>>
       /\ emitted = WZero(8)
       /\ lastEmit = NoEmit
       /\ q = [op |-> "queries", mu |-> 0,
               at |-> [g \in Callers |-> "idle"],
               call |-> [g \in Callers |-> NoCall]]

\* Another goroutine is in the middle of t.strings[off] = s.
Racing(g) == \E h \in Callers \ {g} : q.at[h] = "storing"

\* t.StringAtOffset(off): stringFrom(t.funcdata, off), no mutex taken.
RaceStringAtOffset ==
    \E g \in Callers : \E off \in StringOffsets(t.caches) :
       /\ pc = "queries" /\ q.at[g] = "idle"
       /\ q' = [q EXCEPT !.at[g] = "lookup",
                         !.call[g] = [NoCall EXCEPT !.arr = t.lt.funcdata,
                                                    !.off = off]]
       /\ UNCHANGED <<Data, binSize, mode, pc, t, i, stage, tab,
                      unaccountedSize, out, recs, names, emitted, lastEmit>>

\* Table.PCToLine(pc) for the first or the last pc of a function: PCToFunc
\* finds it, then t.lt.pcToFile(pc), no mutex taken. A panic of pcToFile is
\* not recovered.
RacePCToLine ==
    \E g \in Callers : \E k \in 1..Len(t.Funcs) :
    \E targetpc \in {t.Funcs[k].Entry, WSub(t.Funcs[k].End, I64(1))} :
    \E r \in {pcToFile(t.lt, Data, t.Funcs[k], targetpc)} :
       /\ pc = "queries" /\ q.at[g] = "idle"
       /\ pc' = IF r.ok THEN pc ELSE "panic"
       /\ q' = IF r.ok /\ r.has
               THEN [q EXCEPT !.at[g] = "lookup",
                              !.call[g] = [NoCall EXCEPT !.arr = r.arr,
                                                         !.off = r.off]]
               ELSE [q EXCEPT !.at[g] = "done"]
       /\ UNCHANGED <<Data, binSize, mode, t, i, stage, tab,
                      unaccountedSize, out, recs, names, emitted, lastEmit>>

\* Table.LineToPC(file, line) for a file of t.Files: lineToPC calls
\* initFileMap, which takes the mutex.
RaceLineToPC ==
    \E g \in Callers :
       /\ pc = "queries" /\ q.at[g] = "idle"
       /\ t.caches.fileMap # <<>>
       /\ MuFree(q.mu)
       /\ q' = [q EXCEPT !.mu = g, !.at[g] = "filemap"]
       /\ UNCHANGED <<Data, binSize, mode, pc, t, i, stage, tab,
                      unaccountedSize, out, recs, names, emitted, lastEmit>>

\* initFileMap with the mutex held: the map NewTable built is there, else
\* it is built; then the deferred Unlock. The rest of lineToPC touches no
\* cache.
RaceInitFileMap ==
    \E g \in Callers :
    \E r \in {initFileMap(t.lt, Data, t.caches)} :
       /\ pc = "queries" /\ q.at[g] = "filemap"
       /\ t' = [t EXCEPT !.caches = r.st]
       /\ q' = [q EXCEPT !.mu = 0, !.at[g] = "done"]
       /\ UNCHANGED <<Data, binSize, mode, pc, i, stage, tab,
                      unaccountedSize, out, recs, names, emitted, lastEmit>>

\* if s, ok := t.strings[off]; ok { return s }, then the string is cut out
\* of arr. A read of the map while another goroutine writes it is a data
\* race: the runtime may stop the program ("concurrent map read and map
\* write"), else the write is not seen yet.
RaceLookup ==
    \E g \in Callers :
       /\ pc = "queries" /\ q.at[g] = "lookup"
       /\ \/ /\ q.call[g].off \in DOMAIN t.caches.strings
             /\ q' = [q EXCEPT !.at[g] = "done",
                               !.call[g].s = t.caches.strings[q.call[g].off]]
             /\ pc' = pc
          \/ /\ q.call[g].off \notin DOMAIN t.caches.strings
             /\ IF CanString(Data, q.call[g].arr, q.call[g].off)
                THEN /\ q' = [q EXCEPT !.at[g] = "store",
                                       !.call[g].s = StringAt(Data, q.call[g].arr,
                                                              q.call[g].off)]
                     /\ pc' = pc
                ELSE /\ q' = [q EXCEPT !.at[g] = "done"]
                     /\ pc' = "panic"
          \/ /\ Racing(g)
             /\ q' = q
             /\ pc' = "fatal"
       /\ UNCHANGED <<Data, binSize, mode, t, i, stage, tab,
                      unaccountedSize, out, recs, names, emitted, lastEmit>>

\* t.strings[off] = s begins.
RaceStoreBegin ==
    \E g \in Callers :
       /\ pc = "queries" /\ q.at[g] = "store"
       /\ q' = [q EXCEPT !.at[g] = "storing"]
       /\ UNCHANGED <<Data, binSize, mode, pc, t, i, stage, tab,
                      unaccountedSize, out, recs, names, emitted, lastEmit>>

\* t.strings[off] = s ends, and t.stringLen is read for the addition. Two
\* writes of the map at once are a data race: the runtime may stop the
\* program ("concurrent map writes").
RaceStoreEnd ==
    \E g \in Callers :
       /\ pc = "queries" /\ q.at[g] = "storing"
       /\ \/ /\ t' = [t EXCEPT !.caches.strings =
                         (q.call[g].off :> q.call[g].s) @@ @]
             /\ q' = [q EXCEPT !.at[g] = "addlen",
                               !.call[g].len = t.caches.stringLen]
             /\ pc' = pc
          \/ /\ Racing(g)
             /\ t' = t /\ q' = q
             /\ pc' = "fatal"
       /\ UNCHANGED <<Data, binSize, mode, i, stage, tab,
                      unaccountedSize, out, recs, names, emitted, lastEmit>>

\* t.stringLen += int64(len(s)): the sum is written back.
RaceAddLen ==
    \E g \in Callers :
       /\ pc = "queries" /\ q.at[g] = "addlen"
       /\ t' = [t EXCEPT !.caches.stringLen = q.call[g].len + Len(q.call[g].s)]
       /\ q' = [q EXCEPT !.at[g] = "done"]
       /\ UNCHANGED <<Data, binSize, mode, pc, i, stage, tab,
                      unaccountedSize, out, recs, names, emitted, lastEmit>>

NextRace ==
    \/ RaceStringAtOffset \/ RacePCToLine \/ RaceLineToPC \/ RaceInitFileMap
    \/ RaceLookup \/ RaceStoreBegin \/ RaceStoreEnd \/ RaceAddLen

SpecRace == InitRace /\ [][NextRace]_vars

\* C28: a goroutine that writes the strings map or stringLen holds the
\* mutex of the LineTable, and no two goroutines write the strings map at
\* the same time.
C28_CacheWritesHoldMutex ==
    q.op = "queries" =>
        /\ \A g \in Callers : q.at[g] \in {"storing", "addlen"} => q.mu = g
        /\ Cardinality({g \in Callers : q.at[g] = "storing"}) <= 1

----------------------------------------------------------------------------
(* The ar archive reader and arFile.                                       *)

fileLen == 16
sizeOff == 48
sizeLen == 10
endOff == 58
endHeaderLen == 2
headerLen == 60

arMagic == <<33, 60, 97, 114, 99, 104, 62>> \o <<10>>
endHeader == <<96, 10>>

\* ra.ReadAt(buf, off) for a buffer of n bytes on a file of the bytes data:
\* an error for a negative offset and for a read that ends short.
ReadAt(data, off, n) ==
    IF off < 0 \/ off + n > Len(data) THEN [ok |-> FALSE, buf |-> <<>>]
    ELSE [ok |-> TRUE, buf |-> SubSeq(data, off + 1, off + n)]

\* textproto.TrimString: the ASCII space, tab, newline and return are cut
\* off both ends.
TrimString(s) ==
    LET keep == {k \in 1..Len(s) : s[k] \notin {32, 9, 10, 13}}
    IN IF keep = {} THEN <<>>
       ELSE SubSeq(s, CHOOSE a \in keep : \A b \in keep : a <= b,
                      CHOOSE a \in keep : \A b \in keep : a >= b)

\* strings.TrimRight(s, "\x00")
TrimRightNul(s) ==
    LET keep == {k \in 1..Len(s) : s[k] # 0}
    IN IF keep = {} THEN <<>>
       ELSE SubSeq(s, 1, CHOOSE a \in keep : \A b \in keep : a >= b)

\* The value of a string of decimal digits.
RECURSIVE DecVal(_)
DecVal(s) ==
    IF s = <<>> THEN 0
    ELSE 10 * DecVal(SubSeq(s, 1, Len(s) - 1)) + (s[Len(s)] - 48)

\* strconv.ParseInt(s, 10, 64) and strconv.Atoi(s): an optional sign, then
\* one decimal digit or more. The numbers of the model have few digits, so
\* the range error does not arise.
ParseInt(s) ==
    LET signed == s # <<>> /\ s[1] \in {43, 45}
        digits == IF signed THEN Tail(s) ELSE s
    IN IF digits = <<>> \/ \E k \in 1..Len(digits) : digits[k] \notin 48..57
       THEN [ok |-> FALSE, val |-> 0]
       ELSE [ok |-> TRUE,
             val |-> IF signed /\ s[1] = 45 THEN 0 - DecVal(digits)
                     ELSE DecVal(digits)]

\* r.off += f.Size; if r.off&1 != 0 { r.off++ }
MemberEnd(off, size) ==
    Bind(off + size, LAMBDA end : IF end % 2 # 0 THEN end + 1 ELSE end)

AfterNext(res, off, name, size) ==
    [res |-> res, off |-> off, Name |-> name, Size |-> size]

\* The macOS extended filename: n bytes of name follow the header and
\* count as part of the size. make([]byte, n) panics for a negative n.
ExtendedName(data, off, name, size) ==
    Bind(ParseInt(SubSeq(name, 4, Len(name))), LAMBDA n :
    IF ~n.ok THEN AfterNext("err", off, name, size)
    ELSE IF n.val < 0 THEN AfterNext("panic", off, name, size)
    ELSE Bind(ReadAt(data, off, n.val), LAMBDA nameBuf :
         IF ~nameBuf.ok THEN AfterNext("err", off, name, size)
         ELSE AfterNext("file", MemberEnd(off + n.val, size - n.val),
                        TrimRightNul(nameBuf.buf), size - n.val)))

\* Reader.Next with the reader at off: the file or the error, and the
\* offset the reader is left at.
ReaderNext(data, off) ==
    Bind(ReadAt(data, off, headerLen), LAMBDA h :
    IF ~h.ok THEN AfterNext("err", off, <<>>, 0)
    ELSE IF SubSeq(h.buf, endOff + 1, endOff + endHeaderLen) # endHeader
    THEN AfterNext("err", off, <<>>, 0)
    ELSE Bind(TrimString(SubSeq(h.buf, 1, fileLen)), LAMBDA name :
         Bind(ParseInt(TrimString(SubSeq(h.buf, sizeOff + 1, sizeOff + sizeLen))),
              LAMBDA size :
         IF ~size.ok THEN AfterNext("err", off, name, 0)
         ELSE IF HasPrefix(name, <<35, 49, 47>>)
         THEN ExtendedName(data, off + headerLen, name, size.val)
         ELSE AfterNext("file", MemberEnd(off + headerLen, size.val),
                        name, size.val))))

\* The archives scanned: up to MaxMembers members, each with one of the
\* names and one of the size fields below, followed by as many bytes as a
\* well-made archive has for a size that is not negative; and archives cut
\* short or with another magic.
MaxMembers == 2

Pad(s, n) == s \o [k \in 1..(n - Len(s)) |-> 32]

MemberNames == {<<103, 111, 46, 111>>, <<120>>, <<35, 49, 47, 52>>, <<35, 49, 47, 45, 49>>}
MemberSizes == {<<48>>, <<51>>, <<52>>, <<45, 54, 48>>, <<45, 54, 52>>, <<122, 122>>}

Member(name, size) ==
    Pad(name, fileLen) \o Pad(<<48>>, 12) \o Pad(<<48>>, 6) \o Pad(<<48>>, 6)
    \o Pad(<<54, 52, 52>>, 8) \o Pad(size, sizeLen) \o endHeader
    \o Bind(ParseInt(size), LAMBDA n :
            IF ~n.ok \/ n.val <= 0 THEN <<>>
            ELSE [k \in 1..MemberEnd(0, n.val) |-> IF k <= 3 THEN 111 ELSE 0])

Members == {Member(name, size) : name \in MemberNames, size \in MemberSizes}

\* The archives of exactly n members.
RECURSIVE ArchivesOf(_)
ArchivesOf(n) ==
    IF n = 0 THEN {arMagic}
    ELSE {a \o m : a \in ArchivesOf(n - 1), m \in Members}

ArInputs ==
    UNION {ArchivesOf(n) : n \in 0..MaxMembers}
    \cup {CutTo(a, Len(a) - 1) : a \in ArchivesOf(1)}
    \cup {SetByte(a, 0, 63) : a \in ArchivesOf(1)}

\* arFile is about to make the Reader. q holds the offset of the Reader
\* and what its last call of Next returned.
InitAr ==
    \E data \in ArInputs :
       /\ Data = data
       /\ binSize = Len(data)
       /\ mode = "sql"
       /\ pc = "NewReader"
       /\ t = NoTable
       /\ i = 0 /\ stage = "fixedheader" /\ tab = 0
       /\ unaccountedSize = WZero(8)
       /\ out = <<>> /\ recs = <<>> /\ names = <<>>
       /\ emitted = WZero(8)
       /\ lastEmit = NoEmit
       /\ q = [op |-> "arFile", off |-> 0, from |-> 0,
               last |-> AfterNext("none", 0, <<>>, 0)]

\* ar.NewReader(ra): the magic is read and compared; arFile returns
\* (nil, false) on an error.
ArNewReader ==
    /\ pc = "NewReader"
    /\ \E buf \in {ReadAt(Data, 0, Len(arMagic))} :
          IF buf.ok /\ buf.buf = arMagic
          THEN pc' = "Next" /\ q' = [q EXCEPT !.off = Len(arMagic)]
          ELSE pc' = "done" /\ q' = q
    /\ UNCHANGED <<Data, binSize, mode, t, i, stage, tab, unaccountedSize,
                   out, recs, names, emitted, lastEmit>>

\* af, err := arr.Next(); an error ends arFile with (nil, false), a member
\* named go.o is opened, any other member is passed over.
ArNext ==
    /\ pc = "Next"
    /\ \E r \in {ReaderNext(Data, q.off)} :
          /\ q' = [q EXCEPT !.off = r.off, !.from = q.off, !.last = r]
          /\ pc' = CASE r.res = "err" -> "done"
                     [] r.res = "panic" -> "panic"
                     [] r.Name = <<103, 111, 46, 111>> -> "Open"
                     [] OTHER -> "Next"
    /\ UNCHANGED <<Data, binSize, mode, t, i, stage, tab, unaccountedSize,
                   out, recs, names, emitted, lastEmit>>

\* f, err := Open(af, af.Size): the member is given to the parsers of
\* debug/macho, debug/elf and debug/pe, which take it or not; arFile
\* returns (f, true) when one does and goes on to the next member
\* otherwise.
ArOpen ==
    /\ pc = "Open"
    /\ \E opened \in BOOLEAN : pc' = IF opened THEN "opened" ELSE "Next"
    /\ UNCHANGED <<Data, binSize, mode, t, i, stage, tab, unaccountedSize,
                   out, recs, names, emitted, lastEmit, q>>

NextAr == ArNewReader \/ ArNext \/ ArOpen

SpecAr == InitAr /\ [][NextAr]_vars

\* The scan goes on while a step is possible, and a member that is opened
\* is at last not taken by any parser.
SpecArFair ==
    SpecAr /\ WF_vars(ArNewReader) /\ WF_vars(ArNext)
           /\ WF_vars(ArOpen /\ pc' = "Next")

\* A call of Next that returned a file moved the Reader forward.
NextAdvances ==
    (pc = "Next" /\ q'.last.res = "file" /\ q' # q) => q'.off > q.off

\* C29: every call of Next that returns a file leaves the Reader at a
\* higher offset, whatever the size field and the extended name, and the
\* scan of arFile comes to an end: Next returns an error (arFile returns
\* (nil, false)) unless a member named go.o was opened before.
C29_ScanTerminates ==
    [][NextAdvances]_vars /\ <>(pc \in {"done", "opened"})

----------------------------------------------------------------------------
(* Two runs of diffMap on the same maps (SpecDiff).                        *)

\* C30: diffMap returns the same sequence of records in every execution on
\* equal baseline and current maps: whatever order the range over the map
\* diff gives its keys in, the result is the one of this execution, records
\* of equal size included.
C30_DiffIsDeterministic ==
    q.op = "diff" =>
        \A order \in RangeOrders(DOMAIN DiffOf(recMap(q.old), recMap(q.new))) :
            diffMap(recMap(q.old), recMap(q.new), order) = recs

====
